---- MODULE Spec2Model ----
(***************************************************************************)
(* Planar embedding with external-face optimisation over the block-cut    *)
(* tree: EmbedderMaxFace (ogdf/src/ogdf/planarity/EmbedderMaxFace.cpp)    *)
(* and EmbedderMinDepthMaxFaceLayers.                                      *)
(*                                                                         *)
(* Graphs, adjacency entries, the BC-tree, the block extraction and the   *)
(* face-size oracle are collaborators whose code is not part of the       *)
(* sources; they are modelled from their contracts.  The embedders'       *)
(* own functions are translated statement by statement.                   *)
(***************************************************************************)
EXTENDS Integers, Sequences, FiniteSets, TLC

\* ------------------------------------------------------------------------
\* Bounds
\* ------------------------------------------------------------------------
\* number of blocks of the generated input graphs
MaxBlocks == 3

\* the largest number of rotation systems of an input graph that are
\* enumerated to find the largest face of any of its planar embeddings
MaxRotations == 1000

\* ------------------------------------------------------------------------
\* Small helpers
\* ------------------------------------------------------------------------
Range(s) == {s[i] : i \in 1..Len(s)}

IndexOf(s, x) == CHOOSE i \in 1..Len(s) : s[i] = x

SetMax(S) == CHOOSE x \in S : \A y \in S : y <= x

SetMin(S) == CHOOSE x \in S : \A y \in S : x <= y

RECURSIVE SetToSeq(_)
\* ascending enumeration of a finite set of integers
SetToSeq(S) == IF S = {} THEN <<>> ELSE <<SetMin(S)>> \o SetToSeq(S \ {SetMin(S)})

RECURSIVE SumSeq(_)
SumSeq(s) == IF s = <<>> THEN 0 ELSE Head(s) + SumSeq(Tail(s))

\* all orderings of a finite set
RECURSIVE Perms(_)
Perms(S) == IF S = {} THEN {<<>>} ELSE UNION {{<<x>> \o p : p \in Perms(S \ {x})} : x \in S}

\* ------------------------------------------------------------------------
\* Graph container: a graph is [n, edges, adj]; edge k has the adjacency
\* entries 2k-1 (source side) and 2k (target side); adj[v] is v's adjacency
\* list.
\* ------------------------------------------------------------------------
adjSource(e) == 2 * e - 1

adjTarget(e) == 2 * e

twin(a) == IF a % 2 = 1 THEN a + 1 ELSE a - 1

theEdge(a) == (a + 1) \div 2

theNode(g, a) == IF a % 2 = 1 THEN g.edges[theEdge(a)][1] ELSE g.edges[theEdge(a)][2]

AdjEntries(g) == 1..(2 * Len(g.edges))

\* adjacency lists in edge-creation order
InitAdj(n, edges) ==
  [v \in 1..n |-> SetToSeq({a \in 1..(2 * Len(edges)) :
       IF a % 2 = 1 THEN edges[theEdge(a)][1] = v ELSE edges[theEdge(a)][2] = v})]

\* adj->succ(): 0 stands for the null entry at the end of the list
succ(g, a) ==
  LET l == g.adj[theNode(g, a)]
      i == IndexOf(l, a)
  IN IF i = Len(l) THEN 0 ELSE l[i + 1]

firstAdj(g, v) == g.adj[v][1]

cyclicSucc(g, a) == IF succ(g, a) = 0 THEN firstAdj(g, theNode(g, a)) ELSE succ(g, a)

cyclicPred(g, a) ==
  LET l == g.adj[theNode(g, a)]
      i == IndexOf(l, a)
  IN IF i = 1 THEN l[Len(l)] ELSE l[i - 1]

faceCycleSucc(g, a) == cyclicPred(g, twin(a))

RECURSIVE FaceWalk(_, _, _, _)
FaceWalk(g, start, a, acc) ==
  LET nxt == faceCycleSucc(g, a)
  IN IF nxt = start \/ Len(acc) >= 2 * Len(g.edges)
       THEN acc
       ELSE FaceWalk(g, start, nxt, Append(acc, nxt))

\* the face cycle through a, starting at a
FaceCycle(g, a) == FaceWalk(g, a, a, <<a>>)

\* CombinatorialEmbedding::computeFaces: the faces in the order of the first
\* adjacency entry that lies on them; each face starts at that entry
RECURSIVE ComputeFaces(_, _, _)
ComputeFaces(g, todo, acc) ==
  IF todo = <<>> THEN acc
  ELSE IF \E i \in 1..Len(acc) : Head(todo) \in Range(acc[i])
         THEN ComputeFaces(g, Tail(todo), acc)
         ELSE ComputeFaces(g, Tail(todo), Append(acc, FaceCycle(g, Head(todo))))

RECURSIVE ConcatAdj(_, _)
ConcatAdj(g, v) == IF v > g.n THEN <<>> ELSE g.adj[v] \o ConcatAdj(g, v + 1)

Faces(g) == ComputeFaces(g, ConcatAdj(g, 1), <<>>)

\* CombinatorialEmbedding::rightFace / leftFace
rightFace(g, a) == LET fs == Faces(g) IN fs[CHOOSE i \in 1..Len(fs) : a \in Range(fs[i])]

leftFace(g, a) == rightFace(g, twin(a))

\* a rotation system is a plane embedding of a connected graph iff
\* Euler's formula holds
IsPlanarEmbedding(g) == g.n - Len(g.edges) + Len(Faces(g)) = 2

\* ------------------------------------------------------------------------
\* Input graphs.  A connected planar graph is given block by block: every
\* block is one of the biconnected graphs below, and every block after the
\* first shares exactly one vertex with the graph built so far.
\* ------------------------------------------------------------------------
TypeN(t) ==
  CASE t = "K2" -> 2 [] t = "C3" -> 3 [] t = "K23" -> 5 [] t = "C5" -> 5 [] t = "SK4" -> 6
    [] t = "Prism" -> 6 [] t = "Theta" -> 12

TypeE(t) ==
  CASE t = "K2" -> << <<1, 2>> >>
    [] t = "C3" -> << <<1, 2>>, <<2, 3>>, <<3, 1>> >>
    [] t = "K23" -> << <<1, 3>>, <<3, 2>>, <<1, 4>>, <<4, 2>>, <<1, 5>>, <<5, 2>> >>
    [] t = "C5" -> << <<1, 2>>, <<2, 3>>, <<3, 4>>, <<4, 5>>, <<5, 1>> >>
    \* K_4 on 1..4 with edge {1, 2} subdivided by 5 and edge {3, 4} by 6: no
    \* face of any embedding holds both 5 and 6
    [] t = "SK4" -> << <<1, 5>>, <<5, 2>>, <<1, 3>>, <<1, 4>>, <<2, 3>>, <<2, 4>>,
                       <<3, 6>>, <<6, 4>> >>
    \* the triangular prism: triangles 1-2-3 and 4-5-6, joined by three edges;
    \* the two triangles are faces that share no edge
    [] t = "Prism" -> << <<1, 2>>, <<2, 3>>, <<3, 1>>, <<4, 5>>, <<5, 6>>, <<6, 4>>,
                         <<1, 4>>, <<2, 5>>, <<3, 6>> >>
    \* three paths between 1 and 2: 1-3-2 of length 2, 1-4-5-6-7-2 of length 5
    \* and 1-8-9-10-11-12-2 of length 6; the two faces at 3 have sizes 7 and 8
    [] t = "Theta" -> << <<1, 3>>, <<3, 2>>, <<1, 4>>, <<4, 5>>, <<5, 6>>, <<6, 7>>,
                         <<7, 2>>, <<1, 8>>, <<8, 9>>, <<9, 10>>, <<10, 11>>,
                         <<11, 12>>, <<12, 2>> >>

\* the graph with nv isolated vertices and no block
NoBlocks(nv) ==
  [n |-> nv, edges |-> <<>>, btype |-> <<>>, bnodes |-> <<>>, bedges |-> <<>>]

\* add a block of type t; its local vertex loc is the vertex pl of block pb
\* (pb = 0: the first block, all vertices new)
AddBlock(acc, t, pb, pl, loc) ==
  LET at == IF pb = 0 THEN 0 ELSE acc.bnodes[pb][pl]
      map == [k \in 1..TypeN(t) |->
                IF pb = 0 THEN acc.n + k
                ELSE IF k = loc THEN at
                ELSE acc.n + (IF k < loc THEN k ELSE k - 1)]
      m == Len(TypeE(t))
  IN [n |-> acc.n + TypeN(t) - (IF pb = 0 THEN 0 ELSE 1),
      edges |-> acc.edges \o [k \in 1..m |-> <<map[TypeE(t)[k][1]], map[TypeE(t)[k][2]]>>],
      btype |-> Append(acc.btype, t),
      bnodes |-> Append(acc.bnodes, map),
      bedges |-> Append(acc.bedges, [k \in 1..m |-> Len(acc.edges) + k])]

RECURSIVE BuildFrom(_, _)
\* desc: a sequence of <<type, pb, pl, loc>>
BuildFrom(acc, desc) ==
  IF desc = <<>> THEN acc
  ELSE BuildFrom(AddBlock(acc, desc[1][1], desc[1][2], desc[1][3], desc[1][4]), Tail(desc))

Build(desc) == BuildFrom(NoBlocks(0), desc)

GenTypes == {"K2", "C3"}

\* every way of hanging one more block, by its first vertex, off the first
\* or the second vertex of the last block: the first vertex is where the last
\* block itself hangs, so the blocks form stars, chains and their mixtures
\* (the root of the BC-tree is chosen freely later, so either of two
\* neighbouring blocks can be the parent)
Extend(acc) ==
  LET pb == Len(acc.btype)
  IN {AddBlock(acc, t, pb, pl, 1) : <<t, pl>> \in GenTypes \X (1..2)}

RECURSIVE Level(_)
Level(k) ==
  IF k = 1 THEN {AddBlock(NoBlocks(0), t, 0, 0, 0) : t \in GenTypes}
  ELSE UNION {Extend(acc) : acc \in Level(k - 1)}

\* hand-picked inputs with a K_{2,3} block: alone; with blocks at a pole and
\* at a middle vertex; and with blocks at all three middle vertices (no face
\* of the block holds all three of them), two of them large enough for the
\* largest face to avoid the blocks at the third.  A chain pentagon -
\* subdivided K_4 - subdivided K_4 - edge, hung at the subdividing vertices:
\* started from either end block the nesting is two levels deep, started from
\* a middle block one level.  A prism with an edge hung at one corner.  Three
\* paths of lengths 2, 5 and 6 with an edge hung at the middle of the shortest:
\* the largest face avoids the edge, which then lies in the inner face of
\* size 7 or in the one of size 8
Scenarios ==
  { Build(<< <<"K23", 0, 0, 0>> >>),
    Build(<< <<"K23", 0, 0, 0>>, <<"K2", 1, 1, 1>>, <<"C3", 1, 4, 2>> >>),
    Build(<< <<"K23", 0, 0, 0>>, <<"K2", 1, 5, 2>>, <<"K2", 1, 5, 1>>, <<"C5", 1, 3, 1>>,
             <<"C5", 1, 4, 1>> >>),
    Build(<< <<"SK4", 0, 0, 0>>, <<"C5", 1, 5, 1>>, <<"SK4", 1, 6, 5>>, <<"K2", 3, 6, 1>> >>),
    Build(<< <<"Prism", 0, 0, 0>>, <<"K2", 1, 4, 1>> >>),
    Build(<< <<"Theta", 0, 0, 0>>, <<"K2", 1, 3, 1>> >>) }

Inputs ==
  {NoBlocks(0), NoBlocks(1)} \cup UNION {Level(k) : k \in 1..MaxBlocks} \cup Scenarios

\* ------------------------------------------------------------------------
\* BC-tree (BCTree).  B-node b is the number b > 0, the C-node of cut vertex
\* v is -v, the null tree node is 0.  Tree edges run from child to parent.
\* ------------------------------------------------------------------------
NumBlocks(inp) == Len(inp.btype)

BlocksAt(inp, v) == {b \in 1..NumBlocks(inp) : v \in Range(inp.bnodes[b])}

IsCutVertex(inp, v) == Cardinality(BlocksAt(inp, v)) >= 2

CutVertices(inp) == {v \in 1..inp.n : IsCutVertex(inp, v)}

CutsOf(inp, b) == {v \in Range(inp.bnodes[b]) : IsCutVertex(inp, v)}

RECURSIVE SubtreePairs(_, _, _)
\* <<child block, cut vertex linking it to its parent>> for the blocks below
\* b, where b was reached through cut vertex from
SubtreePairs(inp, b, from) ==
  UNION { {<<b2, c>>} \cup SubtreePairs(inp, b2, c) :
            <<c, b2>> \in {x \in (CutsOf(inp, b) \ {from}) \X (1..NumBlocks(inp)) :
                              x[2] # b /\ x[1] \in Range(inp.bnodes[x[2]])} }

\* BCTree(G): the tree rooted at block root
NewBCTree(inp, root) ==
  LET pairs == SubtreePairs(inp, root, 0)
      parB == [b \in 1..NumBlocks(inp) |->
                 IF b = root THEN 0 ELSE (CHOOSE x \in pairs : x[1] = b)[2]]
  IN [root |-> root,
      parB |-> parB,
      parC |-> [c \in CutVertices(inp) |-> CHOOSE b \in BlocksAt(inp, c) : parB[b] # c]]

\* bcTree().numberOfNodes()
NumTreeNodes(inp) == NumBlocks(inp) + Cardinality(CutVertices(inp))

\* the tree edges at a B-node, in adjacency-list order, named by the
\* cut vertex at their other end
BAdjEntries(inp, b) == SetToSeq(CutsOf(inp, b))

\* the tree edges at a C-node, in adjacency-list order, named by the block
\* at their other end
CAdjEntries(inp, c) == SetToSeq(BlocksAt(inp, c))

\* child cut vertices of B-node b: the edges e at b with e->target() == b
ChildCuts(inp, bc, b) == SelectSeq(BAdjEntries(inp, b), LAMBDA c : bc.parC[c] = b)

\* child blocks of C-node c: the edges e at c with e->target() == c
ChildBlocks(inp, bc, c) == SelectSeq(CAdjEntries(inp, c), LAMBDA b : bc.parB[b] = c)

\* cutVertex(cT, bT): the copy of cut vertex c in block b (a vertex of the
\* auxiliary graph is <<block, local index>>; the local index is also the
\* vertex of the extracted block graph)
cutVertex(inp, c, b) == IndexOf(inp.bnodes[b], c)

\* original(vH), original(eH)
originalNode(inp, b, k) == inp.bnodes[b][k]

originalEdge(inp, b, k) == inp.bedges[b][k]

\* bcproper(vG)
bcproper(inp, v) == IF IsCutVertex(inp, v) THEN -v ELSE CHOOSE b \in BlocksAt(inp, v) : TRUE

\* ConnectedSubgraph::call: the block graph of block b
BlockGraph(inp, b) ==
  [n |-> TypeN(inp.btype[b]),
   edges |-> TypeE(inp.btype[b]),
   adj |-> InitAdj(TypeN(inp.btype[b]), TypeE(inp.btype[b]))]

\* ------------------------------------------------------------------------
\* Face-size oracle (EmbedderMaxFaceBiconnectedGraphs and its Layers
\* variant), from its contract: the size of a face is the sum of the
\* lengths met on a walk around its boundary; computeSize is the size of a
\* largest face over the plane embeddings of the block, optionally among the
\* faces through a given vertex; embed materialises such an embedding and
\* returns an adjacency entry that has the chosen face on its left.
\* ------------------------------------------------------------------------
NodeEntries(g, v) == {a \in AdjEntries(g) : theNode(g, a) = v}

\* the cyclic orders of a set of adjacency entries, as lists
CyclicOrders(S) ==
  IF S = {} THEN {<<>>} ELSE {<<SetMin(S)>> \o p : p \in Perms(S \ {SetMin(S)})}

RECURSIVE RotationsFrom(_, _)
RotationsFrom(g, v) ==
  IF v > g.n THEN {<<>>}
  ELSE {<<l>> \o r : l \in CyclicOrders(NodeEntries(g, v)), r \in RotationsFrom(g, v + 1)}

\* every rotation system of g
Rotations(g) == {[g EXCEPT !.adj = r] : r \in RotationsFrom(g, 1)}

TypeGraph(t) == [n |-> TypeN(t), edges |-> TypeE(t), adj |-> InitAdj(TypeN(t), TypeE(t))]

\* the plane embeddings of each block type, each with its faces
PlaneEmbeddings ==
  [t \in {"K2", "C3", "K23", "C5", "SK4", "Prism", "Theta"} |->
     {[g |-> e, faces |-> Faces(e)] : e \in {r \in Rotations(TypeGraph(t)) : IsPlanarEmbedding(r)}}]

\* as EdgeArrayInit, but every entry is 0
EdgeArrayInit_Zero(g, x) == [e \in 1..Len(g.edges) |-> 0]

EdgeArrayInit(g, x) == [k \in 1..Len(g.edges) |-> x]

NodeArrayInit(g, x) == [v \in 1..g.n |-> x]

FaceSize(g, face, nl, el) ==
  SumSeq([i \in 1..Len(face) |-> el[theEdge(face[i])] + nl[theNode(g, face[i])]])

FaceHasNode(g, face, v) == \E i \in 1..Len(face) : theNode(g, face[i]) = v

\* the sizes of the faces (through vertex at, if at # 0) over all plane
\* embeddings of a block of type t
FaceSizes(t, at, nl, el) ==
  {FaceSize(e.g, e.faces[i], nl, el) :
     <<e, i>> \in {x \in PlaneEmbeddings[t] \X (1..Len(TypeE(t)) + 1) :
                     /\ x[2] <= Len(x[1].faces)
                     /\ at # 0 => FaceHasNode(x[1].g, x[1].faces[x[2]], at)}}

\* computeSize(G, nodeLength, edgeLength, ...)
computeSize(t, nl, el) == SetMax(FaceSizes(t, 0, nl, el))

\* computeSize(G, n, nodeLength, edgeLength, ...)
computeSizeAt(t, at, nl, el) == SetMax(FaceSizes(t, at, nl, el))

\* embed(G, adjExternal, nodeLength, edgeLength [, n]): the possible results
\* <<embedding with faces, adjacency entry>>
embed(t, nl, el, at) ==
  {x \in PlaneEmbeddings[t] \X (1..(2 * Len(TypeE(t)))) :
     LET f == CHOOSE f \in Range(x[1].faces) : twin(x[2]) \in Range(f)
     IN /\ at # 0 => FaceHasNode(x[1].g, f, at)
        /\ FaceSize(x[1].g, f, nl, el) = SetMax(FaceSizes(t, at, nl, el))}

\* embed of the Layers oracle on lengths that are (min-depth, max-face)
\* pairs: the order on such pairs is not part of the sources, so every face
\* (through vertex at, if at # 0) of every plane embedding is a possible result
embedLayers(t, at) ==
  {x \in PlaneEmbeddings[t] \X (1..(2 * Len(TypeE(t)))) :
     LET f == CHOOSE f \in Range(x[1].faces) : twin(x[2]) \in Range(f)
     IN at # 0 => FaceHasNode(x[1].g, f, at)}

\* ------------------------------------------------------------------------
\* State
\* ------------------------------------------------------------------------
VARIABLES
  variant,          \* which embedder runs doCall
  inp,              \* the block structure of the input graph (never written)
  G,                \* the caller's graph: [n, edges, adj]
  adjExternal,      \* the caller's external face pointer (0 = nullptr)
  pc,               \* position of doCall
  pBCTree,          \* 0 (no tree), the BC-tree, or "deleted"
  nodeLength,       \* nodeLength[bT][v]   (mf_nodeLength in the min-depth variant)
  cstrLength,       \* cstrLength[bT][v]   (mf_cstrLength in the min-depth variant)
  stack,            \* the frames of the recursion in progress
  bT_opt,
  ell_opt,
  newOrder,
  treeNodeTreated,
  calls,            \* how often each function has been entered
  embedArgs,        \* the arguments of the oracle's latest embed call
  md,               \* the min-depth tables [m_cB, nl, M_B, M2, minDepth, visits]
  mf_maxFaceSize,   \* mf_maxFaceSize[bT] (min-depth variant only)
  maxFaceAny,       \* reference value, never written: the size of a largest face
                    \* over all planar rotation systems of the input graph
  firstCall,        \* <<>> during the first doCall on the embedder; during the
                    \* second the outcome of the first: [ext, faces, root, populated]
  disjointSets,     \* a DisjointSets object (<<>>: none): its template options,
                    \* its fields, and the latest call with what it returned
  sortedSequence,   \* a SortedSequence<int,int> object (<<>>: none): its fields,
                    \* the skiplist elements by address, and the latest call
  layout,           \* a layout object seen through the bindings (<<>>: none)
  eList             \* an embedded list and a second one (<<>>: none)

vars == <<variant, inp, G, adjExternal, pc, pBCTree, nodeLength, cstrLength, stack,
          bT_opt, ell_opt, newOrder, treeNodeTreated, calls, embedArgs, md, mf_maxFaceSize,
          maxFaceAny, firstCall, disjointSets, sortedSequence, layout, eList>>

\* the objects of the library classes, which the embedders do not touch
library == <<disjointSets, sortedSequence, layout, eList>>

\* the state of the embedders, which the library classes do not touch
embedder == <<variant, inp, G, adjExternal, pc, pBCTree, nodeLength, cstrLength, stack,
              bT_opt, ell_opt, newOrder, treeNodeTreated, calls, embedArgs, md,
              mf_maxFaceSize, maxFaceAny, firstCall>>

RECURSIVE RotationCount(_, _)
\* the number of rotation systems of g: the product over the vertices v, v+1,
\* ... of (degree - 1)!
RotationCount(g, v) ==
  IF v > g.n THEN 1
  ELSE Cardinality(Perms(1..(Len(g.adj[v]) - 1))) * RotationCount(g, v + 1)

\* the largest face over all planar rotation systems of g, by enumeration
\* (0, which bounds nothing, for a graph with more than MaxRotations rotation
\* systems)
MaxFaceOfAnyEmbedding(g) ==
  IF RotationCount(g, 1) > MaxRotations THEN 0 ELSE
  SetMax({0} \cup UNION {LET fs == Faces(r)
                         IN IF g.n - Len(g.edges) + Len(fs) = 2
                              THEN {Len(fs[k]) : k \in 1..Len(fs)} ELSE {} :
                         r \in Rotations(g)})

Variants == {"MaxFace", "MinDepthMaxFaceLayers"}

NoCalls ==
  [BCTree |-> 0, computeBlockGraphs |-> 0, constraintMaxFace |-> 0, maximumFaceRec |-> 0,
   embedBlock |-> 0, computeSize |-> 0, embed |-> 0, sort |-> 0,
   \* the arguments <<bT, cH>> of the constraintMaxFace calls, in call order
   constraintMaxFaceArgs |-> <<>>,
   \* the arguments [at, nl, el] of the latest computeSize call made by
   \* constraintMaxFace
   constraintMaxFaceOracle |-> <<>>,
   \* <<bT, cH, value>>: what each constraintMaxFace call stored in
   \* cstrLength[bT][cH] and returned, in the order of the returns
   constraintMaxFaceStored |-> <<>>,
   \* <<bT, size of a largest face of bT>> of the maximumFaceRec calls, in
   \* call order
   maximumFaceRecArgs |-> <<>>]

Init ==
  /\ inp \in Inputs
  /\ G = [n |-> inp.n, edges |-> inp.edges, adj |-> InitAdj(inp.n, inp.edges)]
  /\ maxFaceAny = MaxFaceOfAnyEmbedding(G)
  /\ variant \in Variants
  /\ adjExternal \in {0, 1}   \* whatever the caller's pointer held
  /\ pc = "start"
  /\ pBCTree = 0
  /\ nodeLength = <<>>
  /\ cstrLength = <<>>
  /\ stack = <<>>
  /\ bT_opt = 0
  /\ ell_opt = 0
  /\ newOrder = <<>>
  /\ treeNodeTreated = <<>>
  /\ calls = NoCalls
  /\ embedArgs = <<>>
  /\ md = <<>>
  /\ mf_maxFaceSize = <<>>
  /\ firstCall = <<>>
  /\ disjointSets = <<>>
  /\ sortedSequence = <<>>
  /\ layout = <<>>
  /\ eList = <<>>

Top == stack[Len(stack)]

Pop == SubSeq(stack, 1, Len(stack) - 1)

BType(b) == inp.btype[b]

\* computeBlockGraphs(bT, cH): the blocks it is called for, in the order in
\* which their block graphs are built
RECURSIVE computeBlockGraphs(_, _, _)
computeBlockGraphs(i, bc, bT) ==
  LET RECURSIVE OverBlocks(_, _)
      OverBlocks(c, bs) ==
        IF bs = <<>> THEN <<>>
        ELSE computeBlockGraphs(i, bc, Head(bs)) \o OverBlocks(c, Tail(bs))
      RECURSIVE OverCuts(_)
      OverCuts(cs) ==
        IF cs = <<>> THEN <<>>
        ELSE OverBlocks(Head(cs), ChildBlocks(i, bc, Head(cs))) \o OverCuts(Tail(cs))
  IN OverCuts(ChildCuts(i, bc, bT)) \o <<bT>>

\* as doCallBaseCase, but the caller's pointer is not reset before the early
\* return for a graph without edges
doCallBaseCase_KeepsPointer ==
  /\ adjExternal' = IF G.n <= 1 THEN adjExternal ELSE adjSource(1)
  /\ pc' = "done"
  /\ UNCHANGED <<G, pBCTree, nodeLength, cstrLength, stack, calls, embedArgs>>

\* as doCallBaseCase, but with the entry at the target of the only edge
doCallBaseCase_Target ==
  /\ adjExternal' = IF G.n <= 1 THEN 0 ELSE adjTarget(1)
  /\ pc' = "done"
  /\ UNCHANGED <<G, pBCTree, nodeLength, cstrLength, stack, calls, embedArgs>>

\* the simple base cases (EmbedderMaxFace.cpp 42-53, part_007 53-64): no
\* vertex or one vertex; one edge, G.firstEdge()
doCallBaseCase ==
  /\ adjExternal' = IF G.n <= 1 THEN 0 ELSE adjSource(1)
  /\ pc' = "done"
  /\ UNCHANGED <<G, pBCTree, nodeLength, cstrLength, stack, calls, embedArgs>>

\* as doCallBiconnected, but the oracle's entry itself is handed back
doCallBiconnected_NoTwin ==
  LET m_nodeLength == NodeArrayInit(G, 0)
      m_edgeLength == EdgeArrayInit(G, 1)
  IN \E x \in embed(BType(1), m_nodeLength, m_edgeLength, 0) :
       /\ G' = [G EXCEPT !.adj = x[1].g.adj]
       /\ adjExternal' = x[2]
       /\ embedArgs' = [whole |-> TRUE, nl |-> m_nodeLength, el |-> m_edgeLength,
                        at |-> 0, ret |-> x[2]]
       /\ calls' = [calls EXCEPT !.BCTree = @ + 1, !.embed = @ + 1]
       /\ pBCTree' = "deleted"
       /\ pc' = "done"
       /\ UNCHANGED <<nodeLength, cstrLength, stack>>

\* "base case of biconnected graph" (EmbedderMaxFace.cpp 58-69, part_007
\* 69-81): a single embed of G itself
doCallBiconnected ==
  LET m_nodeLength == NodeArrayInit(G, 0)
      m_edgeLength == EdgeArrayInit(G, 1)
  IN \E x \in embed(BType(1), m_nodeLength, m_edgeLength, 0) :
       /\ G' = [G EXCEPT !.adj = x[1].g.adj]
       /\ adjExternal' = twin(x[2])
       /\ embedArgs' = [whole |-> TRUE, nl |-> m_nodeLength, el |-> m_edgeLength,
                        at |-> 0, ret |-> x[2]]
       /\ calls' = [calls EXCEPT !.BCTree = @ + 1, !.embed = @ + 1]
       /\ pBCTree' = "deleted"
       /\ pc' = "done"
       /\ UNCHANGED <<nodeLength, cstrLength, stack>>

\* doCall up to the end of computeBlockGraphs (EmbedderMaxFace.cpp 40-93), or
\* up to the search for the root block (part_007 49-92)
doCall ==
  /\ pc = "start"
  /\ IF G.n <= 1 \/ Len(G.edges) = 1
       THEN doCallBaseCase
     ELSE IF NumTreeNodes(inp) = 1
       THEN doCallBiconnected
     ELSE \E root \in 1..NumBlocks(inp) :
       LET bc == NewBCTree(inp, root)
       IN IF variant = "MinDepthMaxFaceLayers"
            THEN /\ pBCTree' = bc
                 /\ adjExternal' = 0
                 /\ calls' = [calls EXCEPT !.BCTree = @ + 1]
                 /\ pc' = "md_bottomUp"
                 /\ UNCHANGED <<G, embedArgs, nodeLength, cstrLength, stack>>
            ELSE LET order == computeBlockGraphs(inp, bc, root)
                 IN /\ pBCTree' = bc
                    /\ adjExternal' = 0
                    /\ nodeLength' = [b \in 1..NumBlocks(inp) |->
                                        IF b \in Range(order)
                                          THEN NodeArrayInit(BlockGraph(inp, b), 0) ELSE <<>>]
                    /\ cstrLength' = [b \in 1..NumBlocks(inp) |->
                                        IF b \in Range(order)
                                          THEN NodeArrayInit(BlockGraph(inp, b), 0) ELSE <<>>]
                    /\ calls' = [calls EXCEPT !.BCTree = @ + 1,
                                              !.computeBlockGraphs = @ + Len(order)]
                    /\ stack' = <<[bT |-> root, cH |-> 0, i |-> 1, j |-> 1, acc |-> 0]>>
                    /\ pc' = "bottomUp"
                    /\ UNCHANGED <<G, embedArgs>>
  /\ UNCHANGED <<library, maxFaceAny, firstCall, md, mf_maxFaceSize, variant, inp, bT_opt, ell_opt, newOrder, treeNodeTreated>>

\* ------------------------------------------------------------------------
\* Minimum depth (EmbedderMinDepthMaxFaceLayers): md_bottomUpTraversal and
\* md_topDownTraversal.  A BC-tree edge is the pair <<cut vertex, block>>; the
\* tables of one traversal are threaded through the recursion as a record
\* [m_cB, nl, M_B, M2, minDepth, visits].
\* ------------------------------------------------------------------------
TreeEdges(i) == {e \in CutVertices(i) \X (1..NumBlocks(i)) : e[2] \in BlocksAt(i, e[1])}

maxint == 16777215

\* "update m_B and M_B": one step of the running maximum m and of the list M
\* of the vertices that attain it
UpdateM(r, val, cV) ==
  IF r.m < val THEN [m |-> val, M |-> <<cV>>]
  ELSE IF r.m = val /\ cV \notin Range(r.M) THEN [m |-> r.m, M |-> Append(r.M, cV)]
  ELSE r

RECURSIVE ScanEdges(_, _, _, _, _)
ScanEdges(i, m_cB, bT, es, r) ==
  IF es = <<>> THEN r
  ELSE ScanEdges(i, m_cB, bT, Tail(es),
                 UpdateM(r, m_cB[Head(es)], cutVertex(i, Head(es)[1], bT)))

RECURSIVE EdgesAround(_, _, _, _)
\* the tree edges at the cut vertices cs of block bT, as the nested loops
\* over bT->adjEntries and cT->adjEntries meet them; skipOwn leaves out the
\* edge between bT and the cut vertex
EdgesAround(i, bT, cs, skipOwn) ==
  IF cs = <<>> THEN <<>>
  ELSE LET bs == SelectSeq(CAdjEntries(i, Head(cs)), LAMBDA b : ~(skipOwn /\ b = bT))
       IN [x \in 1..Len(bs) |-> <<Head(cs), bs[x]>>] \o EdgesAround(i, bT, Tail(cs), skipOwn)

\* the loops that compute m_B and M_B (or m2 and M2, leaving out cut vertex
\* cT1) for block bT, starting from list M0
ScanM(i, m_cB, bT, cT1, skipOwn, M0) ==
  ScanEdges(i, m_cB, bT,
            EdgesAround(i, bT, SelectSeq(BAdjEntries(i, bT), LAMBDA c : c # cT1), skipOwn),
            [m |-> 0, M |-> M0])

SetNodes(nlb, list, x) == [k \in DOMAIN nlb |-> IF k \in Range(list) THEN x ELSE nlb[k]]

RECURSIVE md_bottomUpTraversal(_, _, _, _, _)
\* the result is [ret, s]
md_bottomUpTraversal(i, bc, s, bT, cH) ==
  LET RECURSIVE Loop(_, _)
      \* acc = [s, m, M]; es: the edges <<cT, bT2>> still to visit
      Loop(acc, es) ==
        IF es = <<>> THEN acc
        ELSE LET cT == Head(es)[1]
                 bT2 == Head(es)[2]
                 r == md_bottomUpTraversal(i, bc, acc.s, bT2, cutVertex(i, cT, bT2))
                 u == UpdateM([m |-> acc.m, M |-> acc.M], r.ret, cutVertex(i, cT, bT))
             IN Loop([s |-> [r.s EXCEPT !.m_cB[Head(es)] = r.ret], m |-> u.m, M |-> u.M],
                     Tail(es))
      done == Loop([s |-> s, m |-> 0, M |-> <<>>],
                   EdgesAround(i, bT, ChildCuts(i, bc, bT), TRUE))
      nl == [done.s.nl EXCEPT ![bT] = SetNodes(@, done.M, 1)]
      edgeLength == EdgeArrayInit(BlockGraph(i, bT), 0)
      cstrLength_B_c == computeSizeAt(i.btype[bT], cH, nl[bT], edgeLength)
  IN [s |-> [done.s EXCEPT !.nl = nl],
      ret |-> IF Len(done.M) = 0 THEN 1
              ELSE IF cstrLength_B_c = Len(done.M) THEN done.m
              ELSE done.m + 2]

\* "compute new vertex lengths": m2 and M2 of block bT, whose only vertex in
\* M_B is the copy of cut vertex cT1 (part_007 317-349)
md_M2(i, x, bT, cT1) == ScanM(i, x.m_cB, bT, cT1, TRUE, x.M2[bT])

\* the value written to md_m_cB: 1 without deepest vertices, else the depth
\* m, plus 2 unless a largest face through cH holds all of them
md_Depth(M, m, maxFaceSize) ==
  IF Len(M) = 0 THEN 1
  ELSE IF maxFaceSize = Len(M) THEN m
  ELSE m + 2

RECURSIVE md_Prepare(_, _, _, _, _)
\* "Prepare recursion by setting m_{c, B} for all edges {c, B} \in bcTree"
\* (part_007 300-425): the loop over the child cut vertices cs of bT;
\* r1 = [m, M] holds m_B and M_B, acc is [s, calc] with calc the flag
\* calculateNewNodeLengths
md_Prepare(i, bT, r1, acc, cs) ==
  IF cs = <<>> THEN acc
  ELSE LET t == i.btype[bT]
           edgeLengthBlock == EdgeArrayInit(BlockGraph(i, bT), 0)
           cT == Head(cs)
           cH == cutVertex(i, cT, bT)
           r2 == md_M2(i, acc.s, bT, cT)
           nl2 == SetNodes([acc.s.nl[bT] EXCEPT ![r1.M[1]] = 0], r2.M, 1)
           nl3 == IF acc.calc THEN nl2 ELSE [SetNodes(nl2, r2.M, 0) EXCEPT ![r1.M[1]] = 1]
           m_nodeLength == SetNodes(NodeArrayInit(BlockGraph(i, bT), 0), r1.M, 1)
       IN IF Len(r1.M) = 1 /\ originalNode(i, bT, r1.M[1]) = cT
            THEN md_Prepare(i, bT, r1,
                   [s |-> [acc.s EXCEPT
                             !.m_cB[<<cT, bT>>] =
                                md_Depth(r2.M, r2.m, computeSizeAt(t, cH, nl2, edgeLengthBlock)),
                             !.M2[bT] = r2.M,
                             !.nl[bT] = nl3],
                    calc |-> FALSE], Tail(cs))
            ELSE md_Prepare(i, bT, r1,
                   [acc EXCEPT
                      !.s.m_cB[<<cT, bT>>] =
                         md_Depth(r1.M, r1.m,
                                  computeSizeAt(t, cH, m_nodeLength, edgeLengthBlock))],
                   Tail(cs))

\* the statements between the loop and the recursion (part_007 427-500)
md_AfterPrepare(i, bT, r1, p) ==
  LET r3 == md_M2(i, p.s, bT, originalNode(i, bT, r1.M[1]))
  IN IF p.calc
       THEN [p.s EXCEPT !.M2[bT] = r3.M,
                        !.nl[bT] = SetNodes([@ EXCEPT ![r1.M[1]] = 0], r3.M, 1)]
     ELSE IF Len(r1.M) = 1
       THEN [p.s EXCEPT !.M2[bT] = r3.M]
     ELSE p.s

RECURSIVE md_topDownTraversal(_, _, _, _)

RECURSIVE md_Recurse(_, _, _, _)
\* "Recursion" (part_007 502-516): the child blocks es of bT, one by one
md_Recurse(i, bc, x, es) ==
  IF es = <<>> THEN x
  ELSE md_Recurse(i, bc, md_topDownTraversal(i, bc, x, Head(es)[2]), Tail(es))

\* "Compute M_B and M2 for embedBlock-function" and the minimum depth of bT
\* (part_007 518-579)
md_Finish(i, bT, s3, cstrLength_B_c) ==
  LET r4 == ScanM(i, s3.m_cB, bT, 0, TRUE, <<>>)
      r5 == IF Len(r4.M) = 1
              THEN ScanM(i, s3.m_cB, bT, originalNode(i, bT, r4.M[1]), FALSE, <<>>)
              ELSE [m |-> 0, M |-> <<>>]
  IN [s3 EXCEPT !.M_B[bT] = r4.M,
                !.M2[bT] = r5.M,
                !.minDepth[bT] = IF cstrLength_B_c = Len(r4.M) THEN r4.m ELSE r4.m + 2,
                !.visits[bT] = @ + 1]

md_topDownTraversal(i, bc, s, bT) ==
  LET \* compute m_B and M_B
      r1 == ScanM(i, s.m_cB, bT, 0, TRUE, s.M_B[bT])
      m_nodeLength == SetNodes(NodeArrayInit(BlockGraph(i, bT), 0), r1.M, 1)
      s1 == [s EXCEPT !.nl[bT] = SetNodes(@, r1.M, 1), !.M_B[bT] = r1.M]
      cstrLength_B_c == computeSize(i.btype[bT], m_nodeLength,
                                    EdgeArrayInit(BlockGraph(i, bT), 0))
      s2 == IF Len(r1.M) > 0
              THEN md_AfterPrepare(i, bT, r1,
                     md_Prepare(i, bT, r1,
                                [s |-> s1,
                                 calc |-> Len(r1.M) = 1
                                          /\ originalNode(i, bT, r1.M[1]) = bc.parB[bT]],
                                ChildCuts(i, bc, bT)))
              ELSE s1
  IN md_Finish(i, bT,
               md_Recurse(i, bc, s2, EdgesAround(i, bT, ChildCuts(i, bc, bT), TRUE)),
               cstrLength_B_c)

RECURSIVE md_bottomUpRoot(_, _, _, _)
\* doCall's loop over the child blocks of the root block (106-123)
md_bottomUpRoot(i, bc, s, es) ==
  IF es = <<>> THEN s
  ELSE LET r == md_bottomUpTraversal(i, bc, s, Head(es)[2],
                                     cutVertex(i, Head(es)[1], Head(es)[2]))
       IN md_bottomUpRoot(i, bc, [r.s EXCEPT !.m_cB[Head(es)] = r.ret], Tail(es))

\* as ZeroLengths, but a table that exists already is left as it is
ZeroLengths_Retained(i) ==
  IF nodeLength # <<>> THEN nodeLength
  ELSE [b \in 1..NumBlocks(i) |-> NodeArrayInit(BlockGraph(i, b), 0)]

ZeroLengths(i) == [b \in 1..NumBlocks(i) |-> NodeArrayInit(BlockGraph(i, b), 0)]

\* doCall 95-123: md_nodeLength, md_m_cB and the bottom-up traversal
doCallMinDepthBottomUp ==
  /\ pc = "md_bottomUp"
  /\ md' = md_bottomUpRoot(inp, pBCTree,
             [m_cB |-> [e \in TreeEdges(inp) |-> 0],
              nl |-> ZeroLengths(inp),
              M_B |-> [b \in 1..NumBlocks(inp) |-> <<>>],
              M2 |-> [b \in 1..NumBlocks(inp) |-> <<>>],
              minDepth |-> [b \in 1..NumBlocks(inp) |-> maxint],
              visits |-> [b \in 1..NumBlocks(inp) |-> 0]],
             EdgesAround(inp, pBCTree.root, ChildCuts(inp, pBCTree, pBCTree.root), TRUE))
  /\ pc' = "md_topDown"
  /\ UNCHANGED <<library, maxFaceAny, firstCall, mf_maxFaceSize, variant, inp, G, adjExternal, pBCTree, nodeLength,
                 cstrLength, stack, bT_opt, ell_opt, newOrder, treeNodeTreated, calls,
                 embedArgs>>

\* doCall 125-137: the top-down traversal, then the tables of the max-face part
doCallMinDepthTopDown ==
  /\ pc = "md_topDown"
  /\ md' = md_topDownTraversal(inp, pBCTree,
             [md EXCEPT !.nl = ZeroLengths(inp),
                        !.minDepth = [b \in 1..NumBlocks(inp) |-> maxint],
                        !.M_B = [b \in 1..NumBlocks(inp) |-> <<>>],
                        !.M2 = [b \in 1..NumBlocks(inp) |-> <<>>]],
             pBCTree.root)
  /\ cstrLength' = ZeroLengths(inp)
  /\ nodeLength' = ZeroLengths(inp)
  /\ mf_maxFaceSize' = [b \in 1..NumBlocks(inp) |-> 0]
  /\ stack' = <<[bT |-> pBCTree.root, cH |-> 0, i |-> 1, j |-> 1, acc |-> 0]>>
  /\ pc' = "bottomUp"
  /\ UNCHANGED <<library, maxFaceAny, firstCall, variant, inp, G, adjExternal, pBCTree, bT_opt, ell_opt,
                 newOrder, treeNodeTreated, calls, embedArgs>>

\* ------------------------------------------------------------------------
\* Bottom-up traversal: doCall's loop over the root block (95-115) and
\* constraintMaxFace (173-208).  A frame is [bT, cH, i, j, acc]: the loop is
\* at the j-th child block of the i-th child cut vertex of bT, acc is
\* length_v_in_block; the frame with cH = 0 is doCall's own loop.
\* ------------------------------------------------------------------------
CutAt(fr) == ChildCuts(inp, pBCTree, fr.bT)[fr.i]

LoopPending(fr) == fr.i <= Len(ChildCuts(inp, pBCTree, fr.bT))

\* as AdvanceLoop, but the loop stays at the child block it has just left
AdvanceLoop_Stay(fr) == fr

\* as AdvanceLoop, but the loop over the child blocks of a cut vertex ends
\* after its first pass
AdvanceLoop_NextCut(fr) == [fr EXCEPT !.i = @ + 1, !.j = 1]

\* the caller's frame after a callee came back: next child block, or store
\* the length of the cut vertex and go to the next cut vertex
AdvanceLoop(fr) ==
  IF fr.j < Len(ChildBlocks(inp, pBCTree, CutAt(fr)))
    THEN [fr EXCEPT !.j = @ + 1]
    ELSE [fr EXCEPT !.i = @ + 1, !.j = 1]

constraintMaxFaceCall ==
  /\ pc = "bottomUp"
  /\ LoopPending(Top)
  /\ LET vT == CutAt(Top)
         bT2 == ChildBlocks(inp, pBCTree, vT)[Top.j]
     IN stack' = Append(stack, [bT |-> bT2, cH |-> cutVertex(inp, vT, bT2),
                                i |-> 1, j |-> 1, acc |-> 0])
  /\ calls' = [calls EXCEPT
                 !.constraintMaxFace = @ + 1,
                 !.constraintMaxFaceArgs =
                    LET vT == CutAt(Top)
                        bT2 == ChildBlocks(inp, pBCTree, vT)[Top.j]
                    IN Append(@, <<bT2, cutVertex(inp, vT, bT2)>>)]
  /\ UNCHANGED <<library, maxFaceAny, firstCall, md, mf_maxFaceSize, variant, inp, G, adjExternal, pc, pBCTree, nodeLength, cstrLength,
                 bT_opt, ell_opt, newOrder, treeNodeTreated, embedArgs>>

\* as constraintMaxFaceReturn, but the length of the cut vertex is the value of
\* the last child block instead of the sum over the child blocks
constraintMaxFaceReturn_LastOnly ==
  /\ pc = "bottomUp"
  /\ Len(stack) >= 2
  /\ ~LoopPending(Top)
  /\ LET bT == Top.bT
         cH == Top.cH
         edgeLength == EdgeArrayInit(BlockGraph(inp, bT), 1)
         \* mf_constraintMaxFace resets the length of cH first (part_007 609)
         nl0 == IF variant = "MinDepthMaxFaceLayers"
                  THEN [nodeLength EXCEPT ![bT][cH] = 0] ELSE nodeLength
         cstrLengthBc == computeSizeAt(BType(bT), cH, nl0[bT], edgeLength)
         caller == stack[Len(stack) - 1]
         vT == CutAt(caller)
         length_v_in_block == cstrLengthBc
         last == caller.j = Len(ChildBlocks(inp, pBCTree, vT))
     IN /\ cstrLength' = [cstrLength EXCEPT ![bT][cH] = cstrLengthBc]
        /\ nodeLength' =
             IF last
               THEN [nl0 EXCEPT ![caller.bT][cutVertex(inp, vT, caller.bT)] =
                                   length_v_in_block]
               ELSE nl0
        /\ stack' = Append(SubSeq(stack, 1, Len(stack) - 2),
                           [AdvanceLoop(caller) EXCEPT
                              !.acc = IF last THEN 0 ELSE length_v_in_block])
  /\ calls' = [calls EXCEPT !.computeSize = @ + 1]
  /\ UNCHANGED <<library, maxFaceAny, firstCall, md, mf_maxFaceSize, variant, inp, G, adjExternal, pc, pBCTree, bT_opt, ell_opt, newOrder,
                 treeNodeTreated, embedArgs>>

\* the rest of constraintMaxFace after its loop, and the caller's
\* statements up to its next call
constraintMaxFaceReturn ==
  /\ pc = "bottomUp"
  /\ Len(stack) >= 2
  /\ ~LoopPending(Top)
  /\ LET bT == Top.bT
         cH == Top.cH
         edgeLength == EdgeArrayInit(BlockGraph(inp, bT), 1)
         \* mf_constraintMaxFace resets the length of cH first (part_007 609)
         nl0 == IF variant = "MinDepthMaxFaceLayers"
                  THEN [nodeLength EXCEPT ![bT][cH] = 0] ELSE nodeLength
         cstrLengthBc == computeSizeAt(BType(bT), cH, nl0[bT], edgeLength)
         caller == stack[Len(stack) - 1]
         vT == CutAt(caller)
         length_v_in_block == caller.acc + cstrLengthBc
         last == caller.j = Len(ChildBlocks(inp, pBCTree, vT))
     IN /\ cstrLength' = [cstrLength EXCEPT ![bT][cH] = cstrLengthBc]
        /\ nodeLength' =
             IF last
               THEN [nl0 EXCEPT ![caller.bT][cutVertex(inp, vT, caller.bT)] =
                                   length_v_in_block]
               ELSE nl0
        /\ stack' = Append(SubSeq(stack, 1, Len(stack) - 2),
                           [AdvanceLoop(caller) EXCEPT
                              !.acc = IF last THEN 0 ELSE length_v_in_block])
  /\ calls' = [calls EXCEPT
                 !.computeSize = @ + 1,
                 !.constraintMaxFaceStored =
                    Append(@, <<Top.bT, Top.cH, cstrLength'[Top.bT][Top.cH]>>),
                 !.constraintMaxFaceOracle =
                    [at |-> Top.cH,
                     nl |-> (IF variant = "MinDepthMaxFaceLayers"
                               THEN [nodeLength EXCEPT ![Top.bT][Top.cH] = 0]
                               ELSE nodeLength)[Top.bT],
                     el |-> EdgeArrayInit(BlockGraph(inp, Top.bT), 1)]]
  /\ UNCHANGED <<library, maxFaceAny, firstCall, md, mf_maxFaceSize, variant, inp, G, adjExternal, pc, pBCTree, bT_opt, ell_opt, newOrder,
                 treeNodeTreated, embedArgs>>

\* ------------------------------------------------------------------------
\* Top-down search: maximumFaceRec (211-277).  A frame is
\* [bT, i, j, m_bT_opt, m_ell_opt, L].
\* ------------------------------------------------------------------------
\* as maximumFaceRecFrame, but the size of the block's largest face is taken
\* without the lengths of its cut vertices
maximumFaceRecFrame_ZeroLengths(bT, nl) ==
  [bT |-> bT, i |-> 1, j |-> 1, m_bT_opt |-> bT,
   m_ell_opt |-> computeSize(BType(bT), NodeArrayInit(BlockGraph(inp, bT), 0),
                             EdgeArrayInit(BlockGraph(inp, bT), 1)),
   L |-> 0]

\* the first statements of maximumFaceRec(bT, ...) under node lengths nl
maximumFaceRecFrame(bT, nl) ==
  [bT |-> bT, i |-> 1, j |-> 1, m_bT_opt |-> bT,
   m_ell_opt |-> computeSize(BType(bT), nl[bT], EdgeArrayInit(BlockGraph(inp, bT), 1)),
   L |-> 0]

\* mf_maxFaceSize[bT] = m_ell_opt (part_007 645; EmbedderMaxFace keeps no
\* such table)
SetMaxFaceSize(fr) ==
  IF variant = "MinDepthMaxFaceLayers"
    THEN [mf_maxFaceSize EXCEPT ![fr.bT] = fr.m_ell_opt]
    ELSE mf_maxFaceSize

\* as SumOverOutEdges, but over the tree edges that enter cT (the child
\* blocks) instead of the edge that leaves it
SumOverOutEdges_ChildBlocks(cT, cstr) ==
  SumSeq([k \in 1..Len(CAdjEntries(inp, cT)) |->
            LET bT2 == CAdjEntries(inp, cT)[k]
            IN IF pBCTree.parC[cT] # bT2
                 THEN cstr[bT2][cutVertex(inp, cT, bT2)]
                 ELSE 0])

\* as SumOverOutEdges, but nothing is added up
SumOverOutEdges_Nothing(cT, cstr) == 0

\* L := the sum of cstrLength(B', c) over the tree edges leaving cT
SumOverOutEdges(cT, cstr) ==
  SumSeq([k \in 1..Len(CAdjEntries(inp, cT)) |->
            LET bT2 == CAdjEntries(inp, cT)[k]
            IN IF pBCTree.parC[cT] = bT2    \* e2->source() == cT
                 THEN cstr[bT2][cutVertex(inp, cT, bT2)]
                 ELSE 0])

\* as doCallTopDown, but without waiting for the end of the bottom-up loop
doCallTopDown_Early ==
  /\ pc = "bottomUp"
  /\ stack' = <<maximumFaceRecFrame(pBCTree.root, nodeLength)>>
  /\ mf_maxFaceSize' = SetMaxFaceSize(maximumFaceRecFrame(pBCTree.root, nodeLength))
  /\ calls' = [calls EXCEPT
                 !.maximumFaceRec = @ + 1, !.computeSize = @ + 1,
                 !.maximumFaceRecArgs =
                    <<<<pBCTree.root,
                        maximumFaceRecFrame(pBCTree.root, nodeLength).m_ell_opt>>>>]
  /\ pc' = "topDown"
  /\ UNCHANGED <<library, maxFaceAny, firstCall, md, variant, inp, G, adjExternal, pBCTree, nodeLength, cstrLength, bT_opt,
                 ell_opt, newOrder, treeNodeTreated, embedArgs>>

\* doCall 117-119: the top-level call
doCallTopDown ==
  /\ pc = "bottomUp"
  /\ Len(stack) = 1
  /\ ~LoopPending(Top)
  /\ stack' = <<maximumFaceRecFrame(pBCTree.root, nodeLength)>>
  /\ mf_maxFaceSize' = SetMaxFaceSize(maximumFaceRecFrame(pBCTree.root, nodeLength))
  /\ calls' = [calls EXCEPT
                 !.maximumFaceRec = @ + 1, !.computeSize = @ + 1,
                 !.maximumFaceRecArgs =
                    <<<<pBCTree.root,
                        maximumFaceRecFrame(pBCTree.root, nodeLength).m_ell_opt>>>>]
  /\ pc' = "topDown"
  /\ UNCHANGED <<library, maxFaceAny, firstCall, md, variant, inp, G, adjExternal, pBCTree, nodeLength, cstrLength, bT_opt,
                 ell_opt, newOrder, treeNodeTreated, embedArgs>>

\* one pass of the loops of maximumFaceRec up to the recursive call, and the
\* callee's first statements
maximumFaceRecCall ==
  /\ pc = "topDown"
  /\ LoopPending(Top)
  /\ LET bT == Top.bT
         cT == CutAt(Top)
         cH == cutVertex(inp, cT, bT)
         first == Top.j = 1
         edgeLength == EdgeArrayInit(BlockGraph(inp, bT), 1)
         cstr == IF first
                   THEN [cstrLength EXCEPT ![bT][cH] =
                           computeSizeAt(BType(bT), cH, nodeLength[bT], edgeLength)]
                   ELSE cstrLength
         L == IF first THEN SumOverOutEdges(cT, cstr) ELSE Top.L
         pT == ChildBlocks(inp, pBCTree, cT)[Top.j]
         pB == cutVertex(inp, cT, pT)
         nl == [nodeLength EXCEPT ![pT][pB] = L - cstr[pT][pB]]
     IN /\ cstrLength' = cstr
        /\ nodeLength' = nl
        /\ stack' = Append(Append(Pop, [Top EXCEPT !.L = L]), maximumFaceRecFrame(pT, nl))
        /\ mf_maxFaceSize' = SetMaxFaceSize(maximumFaceRecFrame(pT, nl))
        /\ calls' = [calls EXCEPT
                       !.maximumFaceRec = @ + 1,
                       !.computeSize = @ + (IF first THEN 2 ELSE 1),
                       !.maximumFaceRecArgs =
                          Append(@, <<pT, maximumFaceRecFrame(pT, nl).m_ell_opt>>)]
  /\ UNCHANGED <<library, maxFaceAny, firstCall, md, variant, inp, G, adjExternal, pc, pBCTree, bT_opt, ell_opt, newOrder,
                 treeNodeTreated, embedArgs>>

\* as maximumFaceRecReturn, but the caller keeps the smaller of the two values
maximumFaceRecReturn_Smaller ==
  /\ pc = "topDown"
  /\ Len(stack) >= 2
  /\ ~LoopPending(Top)
  /\ LET thisbT_opt == Top.m_bT_opt
         thisell_opt == Top.m_ell_opt
         caller == AdvanceLoop(stack[Len(stack) - 1])
     IN stack' = Append(SubSeq(stack, 1, Len(stack) - 2),
                        IF thisell_opt < caller.m_ell_opt
                          THEN [caller EXCEPT !.m_bT_opt = thisbT_opt,
                                              !.m_ell_opt = thisell_opt]
                          ELSE caller)
  /\ UNCHANGED <<library, maxFaceAny, firstCall, md, mf_maxFaceSize, variant, inp, G, adjExternal, pc, pBCTree, nodeLength, cstrLength,
                 bT_opt, ell_opt, newOrder, treeNodeTreated, calls, embedArgs>>

\* return (B*, ell*) and the caller's comparison (266-270)
maximumFaceRecReturn ==
  /\ pc = "topDown"
  /\ Len(stack) >= 2
  /\ ~LoopPending(Top)
  /\ LET thisbT_opt == Top.m_bT_opt
         thisell_opt == Top.m_ell_opt
         caller == AdvanceLoop(stack[Len(stack) - 1])
     IN stack' = Append(SubSeq(stack, 1, Len(stack) - 2),
                        IF thisell_opt > caller.m_ell_opt
                          THEN [caller EXCEPT !.m_bT_opt = thisbT_opt,
                                              !.m_ell_opt = thisell_opt]
                          ELSE caller)
  /\ UNCHANGED <<library, maxFaceAny, firstCall, md, mf_maxFaceSize, variant, inp, G, adjExternal, pc, pBCTree, nodeLength, cstrLength,
                 bT_opt, ell_opt, newOrder, treeNodeTreated, calls, embedArgs>>

\* ------------------------------------------------------------------------
\* Embedding reconstruction: embedBlock (288-432).  A frame is
\* [bT, cT, ref, own, emb, f, k, ae, r]: emb is the block's embedding, f the
\* face CE.leftFace(m_adjExternal), k the vertex nSG the loop is at, ae the
\* entry chosen for it (0: the iteration has not begun), r the position in
\* the adjacency list of cT2 of the recursion loop.  own is the list
\* iterator this frame created for vertex k, ref the frame that owns the
\* iterator the parameter after refers to (iterators point at an element of
\* newOrder[nG]; 0 is the invalid iterator).
\* ------------------------------------------------------------------------
nGOf(fr) == originalNode(inp, fr.bT, fr.k)

\* pBCTree->bcproper(nG) == cT
IsAttachment(fr) == bcproper(inp, nGOf(fr)) = fr.cT

no_recursion(fr, treated) ==
  /\ IsCutVertex(inp, nGOf(fr))
  /\ IsAttachment(fr)
  /\ treated[pBCTree.parC[nGOf(fr)]]

\* as OnFace, but the walk around f finds nothing
OnFace_None(fr) == <<>>

\* the adjacency entries of nSG on face f, in the order in which the walk
\* from f->firstAdj() meets them
OnFace(fr) == SelectSeq(fr.f, LAMBDA a : theNode(fr.emb, a) = fr.k)

\* two faces share an edge (an edge of the dual graph, part_007 914-941)
FaceAdjacent(F1, F2) == F1 # F2 /\ \E a \in Range(F1) : twin(a) \in Range(F2)

RECURSIVE DualDistance(_, _, _, _)
\* p_distances: the distance of face F from the faces in from, which are d
\* steps away from the external face (ShortestPathWithBFM, unit lengths)
DualDistance(faces, from, F, d) ==
  IF F \in from THEN d
  ELSE DualDistance(faces, from \cup {H \in faces : \E X \in from : FaceAdjacent(X, H)},
                    F, d + 1)

\* as optFaceChoices, but any face that contains nSG will do
optFaceChoices_AnyFace(fr) ==
  LET faces == Range(Faces(fr.emb))
      with == {F \in faces : FaceHasNode(fr.emb, F, fr.k)}
  IN {cyclicSucc(fr.emb, SelectSeq(F, LAMBDA a : theNode(fr.emb, a) = fr.k)[1]) :
        F \in with}

\* "choose face with minimal shortest path" (part_007 961-992): the entries
\* that follow the entry of nSG on a face that contains nSG and is nearest
\* to the external face; which of several nearest faces comes first in
\* p_faces depends on where the adjacency lists start
optFaceChoices(fr) ==
  LET faces == Range(Faces(fr.emb))
      ext == CHOOSE F \in faces : Range(F) = Range(fr.f)
      with == {F \in faces : FaceHasNode(fr.emb, F, fr.k)}
      dist == [F \in with |-> DualDistance(faces, {ext}, F, 0)]
      optFace == {F \in with : \A H \in with : dist[F] <= dist[H]}
  IN {cyclicSucc(fr.emb, SelectSeq(F, LAMBDA a : theNode(fr.emb, a) = fr.k)[1]) :
        F \in optFace}

\* as aeChoices, but without the search on the external face: always
\* nSG->firstAdj()
aeChoices_FirstAdj(fr, treated) == {firstAdj(fr.emb, fr.k)}

\* the entry the copy of vertex k starts from: the successor of the entry
\* found on f; nSG->firstAdj() if none is found.  The embedding fixes cyclic
\* orders only: where the list of a cut vertex starts is open.
aeChoices(fr, treated) ==
  IF ~IsCutVertex(inp, nGOf(fr)) THEN {firstAdj(fr.emb, fr.k)}
  ELSE IF OnFace(fr) # <<>> THEN {cyclicSucc(fr.emb, OnFace(fr)[1])}
  ELSE IF variant = "MinDepthMaxFaceLayers" /\ ~no_recursion(fr, treated)
    THEN optFaceChoices(fr)
  ELSE NodeEntries(fr.emb, fr.k)

\* the blocks around cut vertex nG the recursion loop still has to look at
Untreated(fr, treated) ==
  {x \in fr.r..Len(CAdjEntries(inp, nGOf(fr))) : ~treated[CAdjEntries(inp, nGOf(fr))[x]]}

\* as RecursionPending, but embedBlock never calls itself
RecursionPending_Never(fr, treated) == FALSE

RecursionPending(fr, treated) ==
  /\ fr.k <= fr.emb.n
  /\ IsCutVertex(inp, nGOf(fr))
  /\ fr.ae # 0 \/ ~no_recursion(fr, treated)
  /\ Untreated(fr, treated) # {}

\* as EntryInG, but always with the entry at the source of the edge
EntryInG_AlwaysSource(bT, nG, a) == adjSource(originalEdge(inp, bT, theEdge(a)))

\* the adjacency entry of G that local entry a of block bT stands for
EntryInG(bT, nG, a) ==
  LET eG == originalEdge(inp, bT, theEdge(a))
  IN IF nG = G.edges[eG][1] THEN adjSource(eG) ELSE adjTarget(eG)

\* the adjacency list of v, rotated to start at a
RotateTo(l, a) == SubSeq(l, IndexOf(l, a), Len(l)) \o SubSeq(l, 1, IndexOf(l, a) - 1)

\* as InsertRun, but the iterator is not advanced past the first entry
\* inserted, so the rest of the run lands behind the entries already there
InsertRun_Interleaved(l, it, run) ==
  IF Len(l) >= 2 /\ Len(run) >= 2
    THEN <<l[1], run[1]>> \o Tail(l) \o Tail(run)
    ELSE l \o run

\* pushBack / insertAfter of a run of entries behind iterator it
InsertRun(l, it, run) ==
  IF it = 0 THEN l \o run
  ELSE SubSeq(l, 1, IndexOf(l, it)) \o run \o SubSeq(l, IndexOf(l, it) + 1, Len(l))

\* as pAdjExternalAfter, but without the test for a pointer that is still null
pAdjExternalAfter_Always(bT, emb, m_adjExternal) ==
  LET on == originalNode(inp, bT, theNode(emb, m_adjExternal))
      hits == SelectSeq(G.adj[on], LAMBDA ae :
                 theEdge(ae) = originalEdge(inp, bT, theEdge(m_adjExternal)))
  IN IF hits # <<>> THEN twin(hits[1]) ELSE adjExternal

\* *pAdjExternal after the statements 313-325 (part_007 776-788): if it is
\* still null, the twin of the entry of G that m_adjExternal stands for
pAdjExternalAfter(bT, emb, m_adjExternal) ==
  LET on == originalNode(inp, bT, theNode(emb, m_adjExternal))
      hits == SelectSeq(G.adj[on], LAMBDA ae :
                 theEdge(ae) = originalEdge(inp, bT, theEdge(m_adjExternal)))
  IN IF adjExternal = 0 /\ hits # <<>> THEN twin(hits[1]) ELSE adjExternal

\* embedBlock(bT, cT, after) down to the loop over the vertices (293-325)
embedBlockEnter(bT, cT, ref, base, mdIn) ==
  LET cH == IF cT # 0 THEN cutVertex(inp, -cT, bT) ELSE 0
      edgeLength == EdgeArrayInit(BlockGraph(inp, bT), 1)
      \* "1. Compute MinDepth node lengths depending on M_B, M2 and cT"
      md1 == IF variant = "MinDepthMaxFaceLayers"
               THEN [mdIn EXCEPT !.nl[bT] =
                       SetNodes(@, IF cT # 0 /\ Len(mdIn.M_B[bT]) = 1 /\ mdIn.M_B[bT][1] = cH
                                     THEN mdIn.M2[bT] ELSE mdIn.M_B[bT], 1)]
               ELSE mdIn
  IN \E x \in (IF variant = "MinDepthMaxFaceLayers"
                THEN embedLayers(BType(bT), cH)
                ELSE embed(BType(bT), nodeLength[bT], edgeLength, cH)) :
       LET emb == x[1].g
           m_adjExternal == x[2]
           f == CHOOSE f \in Range(x[1].faces) : twin(m_adjExternal) \in Range(f)
       IN /\ stack' = Append(base, [bT |-> bT, cT |-> cT, ref |-> ref, own |-> 0,
                                    emb |-> emb, f |-> f, k |-> 1, ae |-> 0, r |-> 1])
          /\ adjExternal' = pAdjExternalAfter(bT, emb, m_adjExternal)
          /\ embedArgs' = [whole |-> FALSE, nl |-> nodeLength[bT], el |-> edgeLength,
                           at |-> cH]
          /\ md' = md1
          /\ calls' = [calls EXCEPT !.embedBlock = @ + 1, !.embed = @ + 1]

RECURSIVE SelectBlock_DepthOnly(_, _)
\* as SelectBlock, but without the comparison of the face sizes of blocks of
\* equal depth
SelectBlock_DepthOnly(order, r) ==
  IF order = <<>> THEN r
  ELSE LET bT == Head(order)
       IN SelectBlock_DepthOnly(Tail(order),
            IF md.minDepth[bT] < r.d_opt \/ r.bT_opt = 0
              THEN [d_opt |-> md.minDepth[bT], ell_opt |-> mf_maxFaceSize[bT],
                    bT_opt |-> bT]
              ELSE r)

RECURSIVE SelectBlock(_, _)
\* "compute bT_opt" (part_007 164-182) over the B-nodes in the order in which
\* bcTree().nodes lists them; r is [d_opt, ell_opt, bT_opt]
SelectBlock(order, r) ==
  IF order = <<>> THEN r
  ELSE LET bT == Head(order)
       IN SelectBlock(Tail(order),
            IF \/ md.minDepth[bT] < r.d_opt
               \/ md.minDepth[bT] = r.d_opt /\ mf_maxFaceSize[bT] > r.ell_opt
              THEN [d_opt |-> md.minDepth[bT], ell_opt |-> mf_maxFaceSize[bT],
                    bT_opt |-> bT]
              ELSE r)

\* doCall 117-125 (part_007 160-190): take the result of the search, start
\* the reconstruction
doCallEmbed ==
  /\ pc = "topDown"
  /\ Len(stack) = 1
  /\ ~LoopPending(Top)
  /\ \E sel \in (IF variant = "MinDepthMaxFaceLayers"
                   THEN {SelectBlock(o, [d_opt |-> maxint, ell_opt |-> -1, bT_opt |-> 0]) :
                           o \in Perms(1..NumBlocks(inp))}
                   ELSE {[bT_opt |-> Top.m_bT_opt, ell_opt |-> Top.m_ell_opt]}) :
       /\ bT_opt' = sel.bT_opt
       /\ ell_opt' = sel.ell_opt
       /\ treeNodeTreated' = [b \in 1..NumBlocks(inp) |-> b = sel.bT_opt]
       /\ embedBlockEnter(sel.bT_opt, 0, 0, <<>>,
                          IF variant = "MinDepthMaxFaceLayers"
                            THEN [md EXCEPT !.nl = ZeroLengths(inp)] ELSE md)
  /\ newOrder' = [v \in 1..G.n |-> <<>>]
  /\ pc' = "embed"
  /\ UNCHANGED <<library, maxFaceAny, firstCall, mf_maxFaceSize, variant, inp, G, pBCTree, nodeLength, cstrLength>>

\* the recursion loop (392-401): the next block around cut vertex nG that is
\* not treated yet is embedded
embedBlockRecurse ==
  /\ pc = "embed"
  /\ RecursionPending(Top, treeNodeTreated)
  /\ \E ae \in (IF Top.ae = 0 THEN aeChoices(Top, treeNodeTreated) ELSE {Top.ae}) :
       LET x == SetMin(Untreated(Top, treeNodeTreated))
           bT2 == CAdjEntries(inp, nGOf(Top))[x]
           ref == IF IsAttachment(Top) THEN Top.ref ELSE Len(stack)
       IN /\ embedBlockEnter(bT2, -nGOf(Top), ref,
                             Append(Pop, [Top EXCEPT !.ae = ae, !.r = x + 1]), md)
          /\ treeNodeTreated' = [treeNodeTreated EXCEPT ![bT2] = TRUE]
  /\ UNCHANGED <<library, maxFaceAny, firstCall, mf_maxFaceSize, variant, inp, G, pc, pBCTree, nodeLength, cstrLength,
                 bT_opt, ell_opt, newOrder>>

\* "embed all edges of block bT" for vertex nSG (405-431)
embedBlockCopy ==
  /\ pc = "embed"
  /\ Top.k <= Top.emb.n
  /\ ~RecursionPending(Top, treeNodeTreated)
  /\ \E ae \in (IF Top.ae = 0 THEN aeChoices(Top, treeNodeTreated) ELSE {Top.ae}) :
       LET nG == nGOf(Top)
           slot == IF IsAttachment(Top) THEN Top.ref ELSE Len(stack)
           run == [x \in 1..Len(Top.emb.adj[Top.k]) |->
                     EntryInG(Top.bT, nG, RotateTo(Top.emb.adj[Top.k], ae)[x])]
           moved == [stack EXCEPT ![slot].own = run[Len(run)]]
       IN /\ newOrder' = [newOrder EXCEPT ![nG] = InsertRun(@, stack[slot].own, run)]
          /\ stack' = [moved EXCEPT ![Len(stack)] =
                         [moved[Len(stack)] EXCEPT
                            !.k = @ + 1, !.ae = 0, !.r = 1,
                            !.own = IF slot = Len(stack) THEN 0 ELSE @]]
  /\ UNCHANGED <<library, maxFaceAny, firstCall, md, mf_maxFaceSize, variant, inp, G, adjExternal, pc, pBCTree, nodeLength, cstrLength, bT_opt,
                 ell_opt, treeNodeTreated, calls, embedArgs>>

embedBlockReturn ==
  /\ pc = "embed"
  /\ Top.k > Top.emb.n
  /\ stack' = Pop
  /\ pc' = IF Len(stack) = 1 THEN "sort" ELSE "embed"
  /\ UNCHANGED <<library, maxFaceAny, firstCall, md, mf_maxFaceSize, variant, inp, G, adjExternal, pBCTree, nodeLength, cstrLength, bT_opt,
                 ell_opt, newOrder, treeNodeTreated, calls, embedArgs>>

\* doCall 127-133: write the rotation system back
doCallSort ==
  /\ pc = "sort"
  /\ G' = [G EXCEPT !.adj = newOrder]
  /\ calls' = [calls EXCEPT !.sort = @ + G.n]
  /\ pBCTree' = "deleted"
  /\ pc' = "done"
  /\ UNCHANGED <<library, maxFaceAny, firstCall, md, mf_maxFaceSize, variant, inp, adjExternal, nodeLength, cstrLength, stack, bT_opt, ell_opt,
                 newOrder, treeNodeTreated, embedArgs>>

\* the sizes of the faces of rotation system g, as a bag: size |-> how many
FaceSizeCollection(g) ==
  LET fs == Faces(g)
  IN [z \in {Len(fs[k]) : k \in 1..Len(fs)} |-> Cardinality({k \in 1..Len(fs) : Len(fs[k]) = z})]

\* the caller runs doCall once more on the same embedder, for the same graph
\* given afresh: the members of the embedder (the tables, newOrder,
\* treeNodeTreated) are as the first call left them, doCall's locals are new
doCallAgain ==
  /\ pc = "done"
  /\ firstCall = <<>>
  /\ firstCall' = [ext |-> IF adjExternal = 0 THEN 0 ELSE Len(FaceCycle(G, adjExternal)),
                   faces |-> FaceSizeCollection(G),
                   root |-> IF calls.maximumFaceRecArgs = <<>> THEN 0
                            ELSE calls.maximumFaceRecArgs[1][1],
                   populated |-> \E b \in DOMAIN nodeLength : \E v \in DOMAIN nodeLength[b] :
                                   nodeLength[b][v] > 0]
  /\ G' = [G EXCEPT !.adj = InitAdj(inp.n, inp.edges)]
  /\ bT_opt' = 0
  /\ ell_opt' = 0
  /\ calls' = NoCalls
  /\ embedArgs' = <<>>
  /\ pc' = "start"
  /\ UNCHANGED <<library, maxFaceAny, md, mf_maxFaceSize, variant, inp, adjExternal, pBCTree,
                 nodeLength, cstrLength, stack, newOrder, treeNodeTreated>>

Next ==
  \/ doCall
  \/ doCallMinDepthBottomUp
  \/ doCallMinDepthTopDown
  \/ constraintMaxFaceCall
  \/ constraintMaxFaceReturn
  \/ doCallTopDown
  \/ maximumFaceRecCall
  \/ maximumFaceRecReturn
  \/ doCallEmbed
  \/ embedBlockRecurse
  \/ embedBlockCopy
  \/ embedBlockReturn
  \/ doCallSort

Spec == Init /\ [][Next]_vars

\* two calls in a row on one embedder, for the smaller input graphs
SecondCallInputs ==
  {NoBlocks(0), NoBlocks(1)} \cup Level(1) \cup Level(2) \cup
  { Build(<< <<"Theta", 0, 0, 0>>, <<"K2", 1, 3, 1>> >>) }

InitTwoCalls == inp \in SecondCallInputs /\ Init

NextTwoCalls == Next \/ doCallAgain

SpecTwoCalls == InitTwoCalls /\ [][NextTwoCalls]_vars

\* ------------------------------------------------------------------------
\* Properties
\* ------------------------------------------------------------------------
Returned == pc = "done"

MultiBlock == NumBlocks(inp) >= 2

\* the BC-tree has one node, and doCall gets as far as building it
Biconnected == NumBlocks(inp) = 1 /\ Len(inp.edges) >= 2

\* two triangles that share one vertex
Bowtie == inp.btype = <<"C3", "C3">>

\* the size of the face of the final rotation system on which adjExternal lies
ExternalFaceSize == Len(FaceCycle(G, adjExternal))

\* list l holds every element of S once and nothing else
IsPermutationOf(l, S) == Len(l) = Cardinality(S) /\ Range(l) = S

\* C1: after EmbedderMaxFace::doCall on a graph with at least two blocks, the
\* face on which adjExternal lies has size exactly ell_opt
C1_ExternalFaceIsEllOpt ==
  (Returned /\ variant = "MaxFace" /\ MultiBlock) => ExternalFaceSize = ell_opt

\* the case of C1 in which the search left the root block: the K_{2,3} block
\* with two pentagons wins with a face of size 14
C1_Witness ==
  /\ Returned /\ variant = "MaxFace"
  /\ NumBlocks(inp) = 5 /\ BType(bT_opt) = "K23"
  /\ ExternalFaceSize = ell_opt /\ ell_opt = 14

\* C2: no face of any planar embedding of the input is larger than the face
\* EmbedderMaxFace::doCall leaves as the external face
C2_NoLargerFaceInAnyEmbedding ==
  (Returned /\ variant = "MaxFace" /\ Len(G.edges) >= 1) =>
     adjExternal # 0 /\ ExternalFaceSize >= maxFaceAny

\* the case of C2: several blocks, smaller faces exist, and the external face
\* is as large as the largest face of the enumeration
C2_Witness ==
  /\ Returned /\ variant = "MaxFace" /\ NumBlocks(inp) >= 3
  /\ ExternalFaceSize = maxFaceAny
  /\ \E k \in 1..Len(Faces(G)) : Len(Faces(G)[k]) < maxFaceAny

\* every adjacency list of g holds exactly the entries of its vertex
WellFormedRotation(g) == \A v \in 1..g.n : IsPermutationOf(g.adj[v], NodeEntries(g, v))

\* face tracing partitions the adjacency entries (every edge lies on two
\* face boundaries, once per direction) and the faces satisfy Euler's formula
\* for the plane
FacesArePlanar(g) ==
  LET fs == Faces(g)
  IN /\ SumSeq([k \in 1..Len(fs) |-> Len(fs[k])]) = 2 * Len(g.edges)
     /\ UNION {Range(fs[k]) : k \in 1..Len(fs)} = AdjEntries(g)
     /\ g.n - Len(g.edges) + Len(fs) = 2

\* C3: the rotation system doCall writes back is a valid combinatorial
\* embedding of the plane: the face walks partition the adjacency entries and
\* no crossing exists (both embedders, every input with an edge)
C3_ValidEmbedding ==
  (Returned /\ Len(G.edges) >= 1) => WellFormedRotation(G) /\ FacesArePlanar(G)

\* the case of C3: the min-depth embedder has stitched the five blocks
\* around the K_{2,3} block and the rotation system differs from the input's
C3_Witness ==
  /\ Returned /\ variant = "MinDepthMaxFaceLayers" /\ NumBlocks(inp) = 5
  /\ G.adj # InitAdj(inp.n, inp.edges)
  /\ FacesArePlanar(G)

\* C4: once embedBlock(bT_opt) has returned, newOrder[v] holds each adjacency
\* entry of v exactly once and nothing else, and the write-back changes
\* neither the nodes nor the edges of G
C4_NewOrderIsPermutation ==
  (pc \in {"sort", "done"} /\ MultiBlock) =>
     /\ \A v \in 1..G.n : IsPermutationOf(newOrder[v], NodeEntries(G, v))
     /\ G.n = inp.n /\ G.edges = inp.edges
     /\ pc = "done" => G.adj = newOrder

\* the case of C4: before the write-back, a cut vertex of three blocks has
\* its six entries in newOrder
C4_Witness ==
  /\ pc = "sort"
  /\ \E v \in 1..G.n : /\ Cardinality(BlocksAt(inp, v)) = 3
                       /\ Len(newOrder[v]) = 6
                       /\ IsPermutationOf(newOrder[v], NodeEntries(G, v))

\* C5 as the claim states it: for the bowtie, ell_opt and the size of the
\* external face are 4
C5_BowtieIsFour ==
  (Returned /\ variant = "MaxFace" /\ Bowtie) => ell_opt = 4 /\ ExternalFaceSize = 4

\* C5, amended: for the bowtie, ell_opt and the size of the external face of
\* the final embedding are 6 (all six edges lie on the external face)
C5_BowtieIsSix ==
  (Returned /\ variant = "MaxFace" /\ Bowtie) => ell_opt = 6 /\ ExternalFaceSize = 6

C5_Witness ==
  /\ Returned /\ variant = "MaxFace" /\ Bowtie
  /\ inp.n = 5 /\ Len(inp.edges) = 6
  /\ ell_opt = 6 /\ Len(rightFace(G, adjExternal)) = 6

\* C6: for a biconnected graph doCall calls the oracle's embed exactly once,
\* on the whole graph with every edge length 1 and every node length 0, calls
\* none of computeBlockGraphs, constraintMaxFace, maximumFaceRec and
\* embedBlock, and returns the twin of the oracle's entry (both embedders)
C6_BiconnectedBaseCase ==
  (Returned /\ Biconnected) =>
     /\ calls.embed = 1 /\ calls.computeSize = 0
     /\ embedArgs.whole /\ embedArgs.at = 0
     /\ embedArgs.nl = [v \in 1..G.n |-> 0]
     /\ embedArgs.el = [e \in 1..Len(G.edges) |-> 1]
     /\ calls.computeBlockGraphs = 0 /\ calls.constraintMaxFace = 0
     /\ calls.maximumFaceRec = 0 /\ calls.embedBlock = 0
     /\ md = <<>>
     /\ adjExternal = twin(embedArgs.ret)

\* the case of C6: the K_{2,3} graph, embedded by the oracle with another
\* rotation system than the input's
C6_Witness ==
  /\ Returned /\ Biconnected /\ variant = "MinDepthMaxFaceLayers"
  /\ calls.embed = 1 /\ G.adj # InitAdj(inp.n, inp.edges)
  /\ adjExternal = twin(embedArgs.ret)

\* C7: for a graph with no vertex or one vertex doCall returns a null
\* external face pointer, builds no BC-tree, calls no oracle and leaves every
\* adjacency list as it was (both embedders)
C7_NoVertexOrOneVertex ==
  (Returned /\ G.n <= 1) =>
     /\ adjExternal = 0
     /\ pBCTree = 0 /\ calls = NoCalls /\ embedArgs = <<>>
     /\ G = [n |-> inp.n, edges |-> inp.edges, adj |-> InitAdj(inp.n, inp.edges)]

C7_Witness ==
  /\ Returned /\ G.n = 1 /\ variant = "MinDepthMaxFaceLayers"
  /\ adjExternal = 0 /\ pBCTree = 0

\* C8: for a graph with more than one vertex and exactly one edge doCall
\* returns the entry at the source of that edge, builds no BC-tree, calls no
\* oracle and reorders no adjacency list (both embedders)
C8_SingleEdge ==
  (Returned /\ G.n > 1 /\ Len(G.edges) = 1) =>
     /\ adjExternal = adjSource(1)
     /\ theNode(G, adjExternal) = G.edges[1][1]
     /\ pBCTree = 0 /\ calls = NoCalls /\ embedArgs = <<>>
     /\ G = [n |-> inp.n, edges |-> inp.edges, adj |-> InitAdj(inp.n, inp.edges)]

C8_Witness ==
  /\ Returned /\ inp.btype = <<"K2">> /\ variant = "MaxFace"
  /\ adjExternal = adjSource(1) /\ calls.BCTree = 0

\* the new value of the pointer stands for an entry on the external face the
\* oracle chose for the block of the bottom frame
FromOracleEntryOfFirstBlock ==
  LET fr == stack'[1]
  IN /\ fr.bT = bT_opt'
     /\ \E a \in AdjEntries(fr.emb) :
          /\ twin(a) \in Range(fr.f)
          /\ adjExternal' =
               twin(EntryInG(fr.bT, originalNode(inp, fr.bT, theNode(fr.emb, a)), a))

\* C9: during reconstruction the external face pointer is written once, by
\* the embedBlock call for bT_opt and from that block's oracle entry; no later
\* embedBlock call changes it; it is not null when doCall returns
C9_PointerWrittenOnce ==
  /\ []((MultiBlock /\ (calls.embedBlock >= 1 \/ Returned)) => adjExternal # 0)
  /\ [][(pc \in {"topDown", "embed", "sort"} /\ adjExternal' # adjExternal) =>
          /\ calls.embedBlock = 0 /\ calls'.embedBlock = 1
          /\ adjExternal = 0
          /\ FromOracleEntryOfFirstBlock]_vars

\* the case of C9: three embedBlock calls have been entered and the pointer
\* is set
C9_Witness ==
  /\ pc = "embed" /\ calls.embedBlock >= 3 /\ Len(stack) >= 2
  /\ adjExternal # 0

\* the frames of maximumFaceRec that have a callee: block B, its cut vertex
\* c and the neighbouring block N the recursion went into
TopDownCalls == IF pc = "topDown" THEN 1..(Len(stack) - 1) ELSE {}

\* the node length of the copy of c in N is L minus the constrained value of N
LengthInNeighbour(k) ==
  LET c == CutAt(stack[k])
      N == stack[k + 1].bT
  IN nodeLength[N][cutVertex(inp, c, N)] = stack[k].L - cstrLength[N][cutVertex(inp, c, N)]

\* C10 as the claim states it: L is the sum of the constrained values over
\* the blocks at c other than B
C10_LExcludesB ==
  \A k \in TopDownCalls :
     LET B == stack[k].bT
         c == CutAt(stack[k])
     IN /\ stack[k].L = SumSeq([x \in 1..Len(CAdjEntries(inp, c)) |->
                                  LET B2 == CAdjEntries(inp, c)[x]
                                  IN IF B2 # B THEN cstrLength[B2][cutVertex(inp, c, B2)]
                                     ELSE 0])
        /\ LengthInNeighbour(k)

\* C10, amended: L is cstrLength(B, c), the size maximumFaceRec has just
\* computed of a largest face of B that contains c, under node lengths in
\* which the length of c in B is the sum of the constrained values of the
\* blocks at c other than B; so L counts the face of B as well.  Before the
\* recursion into N the node length of the copy of c in N is L minus the
\* constrained value of N
C10_LIncludesB ==
  \A k \in TopDownCalls :
     LET B == stack[k].bT
         c == CutAt(stack[k])
         cH == cutVertex(inp, c, B)
         others == SumSeq([x \in 1..Len(CAdjEntries(inp, c)) |->
                             LET B2 == CAdjEntries(inp, c)[x]
                             IN IF B2 # B THEN cstrLength[B2][cutVertex(inp, c, B2)]
                                ELSE 0])
     IN /\ stack[k].L = cstrLength[B][cH]
        /\ stack[k].L = computeSizeAt(BType(B), cH, nodeLength[B],
                                      EdgeArrayInit(BlockGraph(inp, B), 1))
        /\ nodeLength[B][cH] = others
        /\ stack[k].L > others
        /\ LengthInNeighbour(k)

\* the case of C10: the min-depth embedder is two calls deep in the top-down
\* search, below a cut vertex of three blocks
C10_Witness ==
  /\ pc = "topDown" /\ Len(stack) >= 3 /\ variant = "MinDepthMaxFaceLayers"
  /\ stack[1].L > 0
  /\ \E k \in TopDownCalls : Cardinality(BlocksAt(inp, CutAt(stack[k]))) = 3

\* the bottom-up pass is over and the BC-tree still exists
BottomUpDone == pc \in {"topDown", "embed", "sort"}

\* the sum of the values constraintMaxFace returned for the child blocks of
\* cut vertex c
SumOfChildValues(c) ==
  SumSeq([x \in 1..Len(ChildBlocks(inp, pBCTree, c)) |->
            LET N == ChildBlocks(inp, pBCTree, c)[x]
            IN cstrLength[N][cutVertex(inp, c, N)]])

\* C11: after the bottom-up pass, for every block B and every cut vertex v
\* of B whose C-node is a child of B, the node length of the copy of v in B
\* is the sum of constraintMaxFace(childBlock, v) over the child blocks at v
C11_NodeLengthIsSumOfChildren ==
  BottomUpDone =>
     \A B \in 1..NumBlocks(inp) :
        \A x \in 1..Len(ChildCuts(inp, pBCTree, B)) :
           LET c == ChildCuts(inp, pBCTree, B)[x]
           IN nodeLength[B][cutVertex(inp, c, B)] = SumOfChildValues(c)

\* the case of C11: a cut vertex of a non-root block has two child blocks,
\* and its length is more than either child's value
C11_Witness ==
  /\ pc = "topDown"
  /\ \E B \in 1..NumBlocks(inp) : \E x \in 1..Len(ChildCuts(inp, pBCTree, B)) :
       LET c == ChildCuts(inp, pBCTree, B)[x]
       IN /\ B # pBCTree.root
          /\ Len(ChildBlocks(inp, pBCTree, c)) = 2
          /\ nodeLength[B][cutVertex(inp, c, B)] = SumOfChildValues(c)
          /\ \A y \in 1..2 :
               LET N == ChildBlocks(inp, pBCTree, c)[y]
               IN nodeLength[B][cutVertex(inp, c, B)] > cstrLength[N][cutVertex(inp, c, N)]

\* the pairs (block, copy of the cut vertex that links it to its parent) of
\* the non-root B-nodes
PairsBelowRoot ==
  {<<x[1], cutVertex(inp, x[2], x[1])>> : x \in SubtreePairs(inp, pBCTree.root, 0)}

\* C12: during one doCall constraintMaxFace runs once for every non-root
\* B-node, paired with the cut vertex that links it to its parent, never for
\* the root block, and for no pair a second time
C12_ConstraintMaxFaceOncePerPair ==
  LET log == calls.constraintMaxFaceArgs
  IN /\ Len(log) = calls.constraintMaxFace
     /\ \A x, y \in 1..Len(log) : x # y => log[x][1] # log[y][1]
     /\ pc \in {"bottomUp", "topDown", "embed", "sort"} =>
          /\ Range(log) \subseteq PairsBelowRoot
          /\ \A x \in 1..Len(log) : log[x][1] # pBCTree.root
     /\ BottomUpDone => Range(log) = PairsBelowRoot
     /\ (Returned /\ MultiBlock) => Len(log) = NumBlocks(inp) - 1

\* the case of C12: the bottom-up pass over a tree of five blocks is over,
\* every one of the four blocks below the root has been visited
C12_Witness ==
  /\ pc = "topDown" /\ NumBlocks(inp) = 5
  /\ Len(calls.constraintMaxFaceArgs) = 4
  /\ Range(calls.constraintMaxFaceArgs) = PairsBelowRoot
  /\ \E c \in CutVertices(inp) : Len(ChildBlocks(inp, pBCTree, c)) = 2

\* C13: at every face-size oracle call made by constraintMaxFace(B, c) the
\* node length of the copy of the anchor c in B is 0 and every edge of B has
\* length 1
C13_AnchorZeroEdgesOne ==
  calls.constraintMaxFaceOracle # <<>> =>
     LET a == calls.constraintMaxFaceOracle
     IN /\ a.at # 0
        /\ a.nl[a.at] = 0
        /\ \A e \in DOMAIN a.el : a.el[e] = 1

\* the case of C13: the call is made for a block that has child blocks of
\* its own, so that other vertices of the block have lengths above 0
C13_Witness ==
  /\ pc = "bottomUp" /\ calls.constraintMaxFaceOracle # <<>>
  /\ LET a == calls.constraintMaxFaceOracle
     IN /\ a.nl[a.at] = 0
        /\ \E v \in DOMAIN a.nl : a.nl[v] >= 3
        /\ Len(a.el) >= 3 /\ \A e \in DOMAIN a.el : a.el[e] = 1

\* the top-level maximumFaceRec call is about to return
TopLevelSearchOver == pc = "topDown" /\ Len(stack) = 1 /\ ~LoopPending(Top)

\* the sizes the blocks had when maximumFaceRec visited them
VisitedSizes == {calls.maximumFaceRecArgs[x][2] : x \in 1..Len(calls.maximumFaceRecArgs)}

\* every B-node has been a candidate, once
EveryBlockExplored ==
  /\ Len(calls.maximumFaceRecArgs) = NumBlocks(inp)
  /\ {calls.maximumFaceRecArgs[x][1] : x \in 1..Len(calls.maximumFaceRecArgs)}
       = 1..NumBlocks(inp)

\* C14: the top-level maximumFaceRec call explores every B-node and returns
\* the best pair: ell_opt is the maximum over the B-nodes of the size of a
\* largest face of the block under the node lengths in force at its visit,
\* and bT_opt is a B-node with that size
C14_SearchReturnsGlobalBest ==
  /\ TopLevelSearchOver =>
       /\ EveryBlockExplored
       /\ Top.m_ell_opt = SetMax(VisitedSizes)
       /\ <<Top.m_bT_opt, Top.m_ell_opt>> \in Range(calls.maximumFaceRecArgs)
  /\ (variant = "MaxFace" /\ MultiBlock /\ pc \in {"embed", "sort", "done"}) =>
       /\ EveryBlockExplored
       /\ ell_opt = SetMax(VisitedSizes)
       /\ <<bT_opt, ell_opt>> \in Range(calls.maximumFaceRecArgs)

\* the case of C14: the best block is not the root block, which has a
\* smaller largest face
C14_Witness ==
  /\ TopLevelSearchOver /\ NumBlocks(inp) = 5
  /\ Top.m_bT_opt # pBCTree.root
  /\ calls.maximumFaceRecArgs[1][2] < Top.m_ell_opt
  /\ Top.m_ell_opt = SetMax(VisitedSizes)

\* the min-depth embedder has chosen the block the reconstruction starts from
StitchingRootChosen ==
  variant = "MinDepthMaxFaceLayers" /\ MultiBlock /\ pc \in {"embed", "sort", "done"}

\* C15: in the minimum-depth variant the block chosen as stitching root is a
\* B-node whose minimum depth no B-node undercuts, and among the B-nodes of
\* that depth it is one with the largest maximum face size
C15_SmallestDepthThenLargestFace ==
  StitchingRootChosen =>
     /\ bT_opt \in 1..NumBlocks(inp)
     /\ ell_opt = mf_maxFaceSize[bT_opt]
     /\ \A B \in 1..NumBlocks(inp) :
          /\ md.minDepth[bT_opt] <= md.minDepth[B]
          /\ md.minDepth[B] = md.minDepth[bT_opt] => mf_maxFaceSize[B] <= ell_opt

\* the case of C15: some block is deeper than the chosen one, and some block
\* of the same depth has a smaller largest face
C15_Witness ==
  /\ StitchingRootChosen /\ pc = "embed"
  /\ \E B \in 1..NumBlocks(inp) : md.minDepth[B] > md.minDepth[bT_opt]
  /\ \E B \in 1..NumBlocks(inp) :
       md.minDepth[B] = md.minDepth[bT_opt] /\ mf_maxFaceSize[B] < ell_opt

\* embedBlock is back from a recursive call it made for a vertex whose entry
\* ae was found by the search in the dual graph: min-depth variant, a cut
\* vertex other than the one the block hangs at, with no entry on the
\* external face
FallbackChosen ==
  /\ pc = "embed" /\ variant = "MinDepthMaxFaceLayers"
  /\ Top.k <= Top.emb.n
  /\ Top.ae # 0
  /\ IsCutVertex(inp, nGOf(Top))
  /\ ~IsAttachment(Top)
  /\ ~FaceHasNode(Top.emb, Top.f, Top.k)

\* the faces of embedding emb, as sets of adjacency entries
FaceSets(emb) == {Range(F) : F \in Range(Faces(emb))}

RECURSIVE WithinSteps(_, _, _)
\* the faces among fs at most n edges of the planar dual away from face ext
WithinSteps(fs, ext, n) ==
  IF n = 0 THEN {ext}
  ELSE LET near == WithinSteps(fs, ext, n - 1)
       IN near \cup {H \in fs : \E X \in near : \E a \in X : twin(a) \in H}

\* the length of a shortest path in the dual from face ext to face H
DistanceToExternal(fs, ext, H) ==
  SetMin({n \in 0..Cardinality(fs) : H \in WithinSteps(fs, ext, n)})

\* the faces among fs around vertex k
FacesAt(fs, emb, k) == {H \in fs : \E a \in H : theNode(emb, a) = k}

\* the face into which the blocks at the vertex are stitched: they go between
\* the last entry of the list that starts at ae and ae itself
AttachFace(fs, emb, ae) == CHOOSE H \in fs : cyclicPred(emb, ae) \in H

\* the distance of the chosen face, and the distances of the faces around
\* the vertex, in the frame on top of the stack
FallbackDistances ==
  LET fs == FaceSets(Top.emb)
      ext == Range(Top.f)
      F == AttachFace(fs, Top.emb, Top.ae)
  IN [chosen |-> DistanceToExternal(fs, ext, F),
      around |-> {DistanceToExternal(fs, ext, H) : H \in FacesAt(fs, Top.emb, Top.k)},
      at |-> F \in FacesAt(fs, Top.emb, Top.k)]

\* C16: in the minimum-depth variant, for a cut vertex with no entry on the
\* external face of the block, the face chosen for its blocks contains the
\* vertex and no face that contains the vertex is nearer, in the planar dual,
\* to the external face
C16_FallbackFaceIsNearest ==
  FallbackChosen =>
     LET d == FallbackDistances
     IN d.at /\ \A n \in d.around : d.chosen <= n

\* the case of C16: the faces around the vertex are not equally far from the
\* external face, and the chosen one is next to it
C16_Witness ==
  /\ FallbackChosen
  /\ FallbackDistances.chosen = 1
  /\ 2 \in FallbackDistances.around

\* one step of doCall on a graph with two or more blocks keeps the order of
\* the phases
PhaseOrderStep ==
  /\ calls'.constraintMaxFace > calls.constraintMaxFace =>
       /\ pc = "bottomUp" /\ calls.BCTree = 1
       /\ calls.maximumFaceRec = 0 /\ calls.embedBlock = 0
  /\ calls'.maximumFaceRec > calls.maximumFaceRec =>
       /\ calls.BCTree = 1
       /\ calls.constraintMaxFace = NumBlocks(inp) - 1
       /\ (pc = "bottomUp" /\ Len(stack) = 1) \/ pc = "topDown"
       /\ calls.embedBlock = 0
  /\ calls'.embedBlock > calls.embedBlock =>
       /\ calls.maximumFaceRec = NumBlocks(inp)
       /\ TopLevelSearchOver \/ pc = "embed"
       /\ G.adj = InitAdj(inp.n, inp.edges)
  /\ G'.adj # G.adj =>
       /\ pc = "sort" /\ stack = <<>>
       /\ calls.embedBlock = NumBlocks(inp)

\* C17: within one doCall on a graph with at least two blocks no
\* maximumFaceRec call starts before the last constraintMaxFace call has
\* returned, no embedBlock call starts before the top-level maximumFaceRec has
\* returned, and no adjacency list of the graph changes before the last
\* embedBlock call has returned; the BC-tree is built before all of them
C17_PhasesInOrder == [][MultiBlock => PhaseOrderStep]_vars

\* the case of C17: all three passes have run over four blocks, and the
\* rotation system, which differs from the caller's, is not written back yet
C17_Witness ==
  /\ pc = "sort" /\ NumBlocks(inp) = 4
  /\ calls.constraintMaxFace = 3 /\ calls.maximumFaceRec = 4 /\ calls.embedBlock = 4
  /\ G.adj = InitAdj(inp.n, inp.edges) /\ newOrder # G.adj

\* every entry of a table of lengths (one list per block) is at least 0
NonNegativeTable(t) == \A b \in DOMAIN t : \A v \in DOMAIN t[b] : t[b][v] >= 0

NonNegativeList(l) == \A x \in DOMAIN l : l[x] >= 0

\* C19: every node length and edge length stored in the length tables or
\* passed to the face-size oracle is a non-negative integer; in particular
\* every top-down assignment nodeLength := L - cstrLength yields a value >= 0
C19_LengthsNonNegative ==
  /\ NonNegativeTable(nodeLength) /\ NonNegativeTable(cstrLength)
  /\ NonNegativeList(mf_maxFaceSize)
  /\ md # <<>> => NonNegativeTable(md.nl)
  /\ embedArgs # <<>> => NonNegativeList(embedArgs.nl) /\ NonNegativeList(embedArgs.el)
  /\ calls.constraintMaxFaceOracle # <<>> =>
       /\ NonNegativeList(calls.constraintMaxFaceOracle.nl)
       /\ NonNegativeList(calls.constraintMaxFaceOracle.el)
  /\ \A k \in TopDownCalls :
       stack[k].L - cstrLength[stack[k + 1].bT]
                              [cutVertex(inp, CutAt(stack[k]), stack[k + 1].bT)] >= 0

\* the case of C19: a top-down assignment L - cstrLength with a positive
\* value taken off L and a positive length left
C19_Witness ==
  /\ pc = "topDown"
  /\ \E k \in TopDownCalls :
       LET N == stack[k + 1].bT
           cN == cutVertex(inp, CutAt(stack[k]), N)
       IN /\ cstrLength[N][cN] > 0
          /\ nodeLength[N][cN] = stack[k].L - cstrLength[N][cN]
          /\ nodeLength[N][cN] > 0

\* a second doCall on the same graph has returned an external face
SecondCallReturned == firstCall # <<>> /\ Returned /\ adjExternal # 0

\* C18: EmbedderMaxFace run twice on the same connected planar graph, the
\* second time with any root block and any order of the lists, yields the
\* same external face size both times
C18_SameExternalFaceSize ==
  (variant = "MaxFace" /\ SecondCallReturned) => ExternalFaceSize = firstCall.ext

\* C18 as stated: the same external face size and the same collection of
\* face sizes both times
C18_SameFaceSizes ==
  (variant = "MaxFace" /\ SecondCallReturned) =>
     /\ ExternalFaceSize = firstCall.ext
     /\ FaceSizeCollection(G) = firstCall.faces

\* the case of C18: the two calls rooted the BC-tree at different blocks and
\* the second returned a face of the size the first returned
C18_Witness ==
  /\ variant = "MaxFace" /\ SecondCallReturned /\ MultiBlock
  /\ calls.maximumFaceRecArgs[1][1] # firstCall.root
  /\ ExternalFaceSize = firstCall.ext
  /\ ExternalFaceSize > 2

\* table t has a list for every block of the input, and each entry is 0
AllZero(t) ==
  /\ DOMAIN t = 1..NumBlocks(inp)
  /\ \A b \in DOMAIN t : \A v \in DOMAIN t[b] : t[b][v] = 0

\* the min-depth tables of a call that starts from empty tables
FreshMinDepth(bc) ==
  LET blocks == 1..NumBlocks(inp)
      zero == [b \in blocks |-> [v \in 1..BlockGraph(inp, b).n |-> 0]]
      none == [b \in blocks |-> <<>>]
      up == md_bottomUpRoot(inp, bc,
              [m_cB |-> [e \in TreeEdges(inp) |-> 0], nl |-> zero, M_B |-> none, M2 |-> none,
               minDepth |-> [b \in blocks |-> maxint], visits |-> [b \in blocks |-> 0]],
              EdgesAround(inp, bc.root, ChildCuts(inp, bc, bc.root), TRUE))
  IN md_topDownTraversal(inp, bc,
       [up EXCEPT !.nl = zero, !.minDepth = [b \in blocks |-> maxint],
                  !.M_B = none, !.M2 = none],
       bc.root)

TablesFreshStep ==
  /\ (pc # "bottomUp" /\ pc' = "bottomUp") =>
       /\ AllZero(nodeLength') /\ AllZero(cstrLength')
       /\ variant = "MinDepthMaxFaceLayers" =>
            /\ mf_maxFaceSize' = [b \in 1..NumBlocks(inp) |-> 0]
            /\ md' = FreshMinDepth(pBCTree)
  /\ (pc # "done" /\ pc' = "done" /\ MultiBlock) => pBCTree' = "deleted"

Phases == <<"start", "md_bottomUp", "md_topDown", "bottomUp", "topDown", "embed", "sort", "done">>

RECURSIVE EntriesPlaced(_, _)
\* the number of adjacency entries in the lists v, v + 1, ... of order
EntriesPlaced(order, v) ==
  IF v > Len(order) THEN 0 ELSE Len(order[v]) + EntriesPlaced(order, v + 1)

\* how far doCall has come: its position, the recursive calls entered and
\* left so far, and the adjacency entries the reconstruction has placed
Progress ==
  2 * IndexOf(Phases, pc)
  + 2 * (calls.constraintMaxFace + calls.maximumFaceRec + calls.embedBlock) - Len(stack)
  + (IF pc \in {"embed", "sort", "done"} THEN EntriesPlaced(newOrder, 1) ELSE 0)

\* every block is entered once by each of the three recursions and every
\* edge has two adjacency entries
ProgressBound == 2 * Len(Phases) + 2 * (3 * NumBlocks(inp)) + 2 * Len(inp.edges)

\* C21: for every finite connected planar input doCall runs to completion:
\* every step brings it forward and leaves it, until it has returned, where
\* another step can be taken, the number of calls and loop passes is bounded by the size of the
\* input, and the recursion in progress (constraintMaxFace, maximumFaceRec or
\* embedBlock) is never deeper than the number of BC-tree nodes
\* at position p with frames st, doCall has a next step to take: a recursion
\* in progress has a frame, and the vertex loop of embedBlock finds an entry
\* to start the copy from
CanProceed(p, st, treated) ==
  /\ p \in {"bottomUp", "topDown", "embed"} => st # <<>>
  /\ (p = "embed" /\ st[Len(st)].k <= st[Len(st)].emb.n /\ st[Len(st)].ae = 0) =>
       aeChoices(st[Len(st)], treated) # {}

ForwardStep ==
  /\ Progress' > Progress
  /\ Progress' <= ProgressBound
  /\ Len(stack') <= NumTreeNodes(inp)
  /\ CanProceed(pc', stack', treeNodeTreated')

EmbedBlockEntered == calls'.embedBlock = calls.embedBlock + 1

\* one step of the reconstruction: an entry into embedBlock marks its block
\* and no other; the block of a recursive entry was not marked before; nothing
\* else changes the marks; when embedBlock(bT_opt) returns all blocks are
\* marked and there have been as many entries as there are B-nodes
TreatedStep ==
  /\ (EmbedBlockEntered /\ pc = "topDown") =>
       /\ stack'[1].bT = bT_opt'
       /\ treeNodeTreated' = [b \in 1..NumBlocks(inp) |-> b = bT_opt']
  /\ (EmbedBlockEntered /\ pc = "embed") =>
       /\ ~treeNodeTreated[stack'[Len(stack')].bT]
       /\ treeNodeTreated' = [treeNodeTreated EXCEPT ![stack'[Len(stack')].bT] = TRUE]
  /\ (pc = "embed" /\ ~EmbedBlockEntered) => treeNodeTreated' = treeNodeTreated
  /\ (pc = "embed" /\ pc' = "sort") =>
       /\ \A b \in 1..NumBlocks(inp) : treeNodeTreated[b]
       /\ calls.embedBlock = NumBlocks(inp)

\* C26: during reconstruction embedBlock is entered exactly once for each
\* B-node: a block is marked treated on entry, recursion goes only into
\* blocks not yet treated, and when embedBlock(bT_opt) returns every B-node is
\* marked, whether bT_opt is the root of the BC-tree, an inner block or a leaf
C26_EachBlockEmbeddedOnce == [][TreatedStep]_vars

\* the case of C26: embedBlock(bT_opt) has returned for four blocks, with
\* bT_opt an inner block of the BC-tree, so that the recursion went to its
\* parent and to its child
C26_Witness ==
  /\ pc = "sort"
  /\ NumBlocks(inp) = 4
  /\ calls.embedBlock = 4
  /\ bT_opt # pBCTree.root
  /\ ChildCuts(inp, pBCTree, bT_opt) # <<>>

\* the places in list order that hold an entry of an edge of block b
RunPositions(order, b) ==
  {i \in 1..Len(order) : theEdge(order[i]) \in Range(inp.bedges[b])}

\* the entries of block b in list order, in the order of the list
RunIn(order, b) ==
  SelectSeq(order, LAMBDA a : theEdge(a) \in Range(inp.bedges[b]))

IsOneRun(order, b) ==
  LET pos == RunPositions(order, b)
  IN pos = {} \/ pos = SetMin(pos)..SetMax(pos)

\* at every cut vertex the entries of each block stand side by side
RunsStayApart(order) ==
  \A v \in CutVertices(inp) : \A b \in BlocksAt(inp, v) : IsOneRun(order[v], b)

\* the oracle's cyclic order at vertex fr.k of block fr.bT, read from start
\* and translated into entries of G
CyclicOrderOf(fr, start) ==
  [x \in 1..Len(fr.emb.adj[fr.k]) |->
     EntryInG(fr.bT, nGOf(fr), RotateTo(fr.emb.adj[fr.k], start)[x])]

\* embedBlock copies the entries of a cut vertex in this step
CopiedAtCutVertex ==
  /\ pc = "embed"
  /\ newOrder' # newOrder
  /\ IsCutVertex(inp, nGOf(Top))

\* the runs placed before this step are as they were
EarlierRunsKept ==
  \A v \in CutVertices(inp) : \A b \in BlocksAt(inp, v) :
    (v # nGOf(Top) \/ b # Top.bT) => RunIn(newOrder'[v], b) = RunIn(newOrder[v], b)

CopyRunStep_FromFace ==
  CopiedAtCutVertex =>
    /\ RunsStayApart(newOrder')
    /\ EarlierRunsKept
    /\ OnFace(Top) # <<>>
    /\ RunIn(newOrder'[nGOf(Top)], Top.bT)
         = CyclicOrderOf(Top, cyclicSucc(Top.emb, OnFace(Top)[1]))

CopyRunStep ==
  CopiedAtCutVertex =>
    /\ RunsStayApart(newOrder')
    /\ EarlierRunsKept
    /\ \E start \in NodeEntries(Top.emb, Top.k) :
         /\ OnFace(Top) # <<>> => start = cyclicSucc(Top.emb, OnFace(Top)[1])
         /\ RunIn(newOrder'[nGOf(Top)], Top.bT) = CyclicOrderOf(Top, start)

\* C27 as stated: in newOrder[v] of a cut vertex v the entries of each
\* incident block form one contiguous run, never interleaved with another
\* block's, in the cyclic order of the block's oracle embedding at v, and
\* the run starts at the entry that follows the one found on the block's
\* external face.
C27_RunStartsAfterExternalFace == [][CopyRunStep_FromFace]_vars

\* C27: in newOrder[v] of a cut vertex v the entries of each incident block
\* form one contiguous run, never interleaved with another block's, in the
\* cyclic order of the block's oracle embedding at v; the run starts at the
\* entry that follows the one found on the block's external face when v lies
\* on that face, and at another entry of v otherwise.
C27_BlockRunsContiguous == [][CopyRunStep]_vars

\* the run of a block with three entries at a cut vertex that is not on the
\* block's external face has been placed beside another block's run
C27_Witness ==
  /\ pc = "embed"
  /\ stack # <<>>
  /\ Top.k > 1
  /\ LET prev == [Top EXCEPT !.k = @ - 1]
     IN /\ IsCutVertex(inp, nGOf(prev))
        /\ OnFace(prev) = <<>>
        /\ Len(RunIn(newOrder[nGOf(prev)], Top.bT)) >= 3
        /\ Len(newOrder[nGOf(prev)]) > Len(RunIn(newOrder[nGOf(prev)], Top.bT))

\* the values constraintMaxFace stored
Stored == calls.constraintMaxFaceStored

\* every entry a constraintMaxFace call stored still holds the value stored
StoredIntact(cstr, stored) ==
  \A n \in 1..Len(stored) : cstr[stored[n][1]][stored[n][2]] = stored[n][3]

\* maximumFaceRec assigns a node length and calls itself in this step
TopDownAssigns == pc = "topDown" /\ Len(stack') = Len(stack) + 1

TopDownStep ==
  /\ pc' = "topDown" => StoredIntact(cstrLength', Stored')
  /\ TopDownAssigns =>
       LET B == Top.bT
           cT == CutAt(Top)
           N == stack'[Len(stack')].bT
           c == cutVertex(inp, cT, N)
       IN \* the value taken off L is the one constraintMaxFace(N, c) stored
          /\ Cardinality({n \in 1..Len(Stored) : Stored[n][1] = N /\ Stored[n][2] = c}) = 1
          /\ \E n \in 1..Len(Stored) :
               /\ Stored[n][1] = N /\ Stored[n][2] = c
               /\ nodeLength'[N][c] = stack'[Len(stack)].L - Stored[n][3]
          \* cstrLength is written at the child cut vertex of the block visited
          /\ \A b \in 1..NumBlocks(inp) : \A v \in 1..Len(inp.bnodes[b]) :
               cstrLength'[b][v] # cstrLength[b][v] =>
                 /\ b = B
                 /\ v = cutVertex(inp, cT, B)
                 /\ pBCTree.parC[cT] = B

\* C28: the value subtracted in the top-down assignment
\* nodeLength[N][c] = L - cstrLength[N][c] is the value constraintMaxFace(N, c)
\* stored bottom-up; the top-down pass writes cstrLength only at a child cut
\* vertex of the block it visits and leaves every entry stored bottom-up as
\* it was.
C28_SubtractsBottomUpValue == [][TopDownStep]_vars

\* the top-down pass is two blocks below the root: it has written a child
\* entry of a block whose parent entry was stored bottom-up, and has taken a
\* stored value off L
C28_Witness ==
  /\ pc = "topDown"
  /\ Len(stack) >= 3
  /\ LET B == stack[2].bT
         N == stack[3].bT
         cT == CutAt(stack[2])
         up == cutVertex(inp, pBCTree.parB[B], B)
     IN /\ cstrLength[B][up] > 0
        /\ cstrLength[B][cutVertex(inp, cT, B)] > 0
        /\ cstrLength[B][cutVertex(inp, cT, B)] # cstrLength[B][up]
        /\ \E n \in 1..Len(Stored) :
             /\ Stored[n][1] = N /\ Stored[n][2] = cutVertex(inp, cT, N)
             /\ Stored[n][3] > 0
             /\ nodeLength[N][cutVertex(inp, cT, N)] = stack[2].L - Stored[n][3]

\* doCall of the minimum-depth variant is about to run its selection loop
AtSelection ==
  /\ variant = "MinDepthMaxFaceLayers"
  /\ pc = "topDown"
  /\ Len(stack) = 1
  /\ ~LoopPending(Top)

\* the calls of mf_maximumFaceRec made for block b
MaximumFaceRecCallsFor(b) ==
  {n \in 1..Len(calls.maximumFaceRecArgs) : calls.maximumFaceRecArgs[n][1] = b}

\* C29: in the minimum-depth variant, when the selection loop runs,
\* md_topDownTraversal and mf_maximumFaceRec have each visited every B-node
\* exactly once, every B-node has md_minDepth below the sentinel maxint and
\* the mf_maxFaceSize the top-down pass assigned, and the loop ends with
\* bT_opt set to a B-node, whatever the order of the nodes.
C29_AllBlocksVisitedBeforeSelection ==
  /\ AtSelection =>
       /\ \A b \in 1..NumBlocks(inp) :
            /\ md.visits[b] = 1
            /\ md.minDepth[b] < maxint
            /\ Cardinality(MaximumFaceRecCallsFor(b)) = 1
            /\ \A n \in MaximumFaceRecCallsFor(b) :
                 /\ mf_maxFaceSize[b] = calls.maximumFaceRecArgs[n][2]
                 /\ mf_maxFaceSize[b] > 0
       /\ \A o \in Perms(1..NumBlocks(inp)) :
            SelectBlock(o, [d_opt |-> maxint, ell_opt |-> -1, bT_opt |-> 0]).bT_opt
              \in 1..NumBlocks(inp)
  /\ (variant = "MinDepthMaxFaceLayers" /\ pc \in {"embed", "sort"}) =>
       bT_opt \in 1..NumBlocks(inp)

\* the selection loop is about to run over four blocks of different minimum
\* depths and different largest faces
C29_Witness ==
  /\ AtSelection
  /\ NumBlocks(inp) = 4
  /\ \E a, b \in 1..NumBlocks(inp) :
       /\ md.minDepth[a] < md.minDepth[b]
       /\ mf_maxFaceSize[a] # mf_maxFaceSize[b]
  /\ \A b \in 1..NumBlocks(inp) : md.visits[b] = 1

\* ------------------------------------------------------------------------
\* DisjointSets (union/find).  Set ids are 0, 1, ...; the arrays parents,
\* parameters and siblings are functions on the ids made so far (the rest of
\* an array is not initialised and never read).  Every function of the class
\* is an operator from the arrays to the arrays after the call and the value
\* returned.
\* ------------------------------------------------------------------------
\* the number of makeSet calls explored
MaxElements == 4

\* the template arguments <linkOption, compressionOption, interleavingOption>
\* that pass the static_asserts of the class template
AcceptedOptions ==
  LET LinkOptions == {"NL", "LI", "LS", "LR"}
      CompressionOptions == {"PC", "PS", "PH", "R1", "CO", "NF"}
      InterleavingOptions == {"NI", "Rem", "TvL", "IR0", "IPSPC"}
  IN {o \in LinkOptions \X CompressionOptions \X InterleavingOptions :
        /\ o[3] = "Rem" => o[1] = "LI"
        /\ o[3] = "TvL" => o[1] = "LR"
        /\ o[3] = "IR0" => o[1] = "NL"
        /\ o[3] = "IPSPC" => o[1] = "LI"}

RECURSIVE findPC(_, _)
findPC(parents, set) ==
  LET parent == parents[set]
  IN IF set = parent THEN [parents |-> parents, ret |-> set]
     ELSE LET r == findPC(parents, parent)
          IN [parents |-> [r.parents EXCEPT ![set] = r.ret], ret |-> r.ret]

RECURSIVE findPH(_, _)
findPH(parents, set) ==
  IF set = parents[set] THEN [parents |-> parents, ret |-> set]
  ELSE LET parent == parents[set]
           grandParent == parents[parent]
       IN findPH([parents EXCEPT ![set] = grandParent], grandParent)

RECURSIVE findPSLoop(_, _, _, _)
\* the while loop of path splitting, also used by quickUnion with IPSPC
findPSLoop(parents, set, parent, grandParent) ==
  IF parent = grandParent THEN [parents |-> parents, set |-> set, ret |-> parent]
  ELSE LET p2 == [parents EXCEPT ![set] = grandParent]
       IN findPSLoop(p2, parent, grandParent, p2[grandParent])

findPS(parents, set) == findPSLoop(parents, set, parents[set], parents[parents[set]])

findR1(parents, set) ==
  LET root == set
      RECURSIVE while(_, _)
      while(p, s) ==
        IF s = p[s] THEN [parents |-> [p EXCEPT ![root] = s], ret |-> s]
        ELSE LET parent == p[s]
             IN while([p EXCEPT ![s] = root], parent)
  IN while(parents, parents[root])

RECURSIVE findNF(_, _)
findNF(parents, set) ==
  IF set = parents[set] THEN [parents |-> parents, ret |-> set]
  ELSE findNF(parents, parents[set])

findCO(parents, set) == [parents |-> parents, ret |-> parents[set]]

\* find(CompressionOption<compressionOption>(), set)
find(d, set) ==
  CASE d.compressionOption = "PC" -> findPC(d.parents, set)
    [] d.compressionOption = "PS" -> findPS(d.parents, set)
    [] d.compressionOption = "PH" -> findPH(d.parents, set)
    [] d.compressionOption = "R1" -> findR1(d.parents, set)
    [] d.compressionOption = "CO" -> findCO(d.parents, set)
    [] d.compressionOption = "NF" -> findNF(d.parents, set)

\* getRepresentative: the walk to the root, which changes nothing
getRepresentative(parents, set) == findNF(parents, set).ret

\* link(LinkOption<linkOption>(), set1, set2)
linkOf(d, set1, set2) ==
  CASE d.linkOption = "LI" ->
         IF set1 < set2
           THEN [d EXCEPT !.parents[set1] = set2, !.ret = set2]
           ELSE [d EXCEPT !.parents[set2] = set1, !.ret = set1]
    [] d.linkOption = "LR" ->
         LET parameter1 == d.parameters[set1]
             parameter2 == d.parameters[set2]
         IN IF parameter1 < parameter2
              THEN [d EXCEPT !.parents[set1] = set2, !.ret = set2]
            ELSE IF parameter1 > parameter2
              THEN [d EXCEPT !.parents[set2] = set1, !.ret = set1]
            ELSE [d EXCEPT !.parents[set1] = set2, !.parameters[set2] = @ + 1,
                           !.ret = set2]
    [] d.linkOption = "LS" ->
         LET parameter1 == d.parameters[set1]
             parameter2 == d.parameters[set2]
         IN IF parameter1 < parameter2
              THEN [d EXCEPT !.parents[set1] = set2, !.parameters[set2] = @ + parameter1,
                             !.ret = set2]
              ELSE [d EXCEPT !.parents[set2] = set1, !.parameters[set1] = @ + parameter2,
                             !.ret = set1]
    [] d.linkOption = "NL" -> [d EXCEPT !.parents[set1] = set2, !.ret = set2]

linkPure(d, set1, set2) ==
  LET RECURSIVE CollapseLoop(_, _, _, _)
      \* "Collapse subset tree": the walk along the siblings of the subset
      CollapseLoop(parents, siblings, id, superset) ==
        IF siblings[id] = -1 THEN [parents |-> parents, id |-> id]
        ELSE CollapseLoop([parents EXCEPT ![siblings[id]] = superset], siblings, siblings[id],
                          superset)
  IN LET l == linkOf(d, set1, set2)
         superset == l.ret
     IN IF d.compressionOption = "CO"
          THEN LET subset == IF set1 = superset THEN set2 ELSE set1
                   c == CollapseLoop(l.parents, l.siblings, subset, superset)
               IN [l EXCEPT !.parents = c.parents,
                            !.siblings = [[l.siblings EXCEPT ![c.id] = l.siblings[superset]]
                                            EXCEPT ![superset] = subset]]
          ELSE l

\* quickUnion(AnyOption, InterleavingOption<NI>, set1, set2)
quickUnionNI(d, set1, set2) ==
  IF d.parents[set1] = d.parents[set2] THEN [d EXCEPT !.ret = FALSE]
  ELSE LET f1 == find(d, set1)
           f2 == find([d EXCEPT !.parents = f1.parents], set2)
           d2 == [d EXCEPT !.parents = f2.parents]
       IN IF f1.ret # f2.ret THEN [linkPure(d2, f1.ret, f2.ret) EXCEPT !.ret = TRUE]
          ELSE [d2 EXCEPT !.ret = FALSE]

\* quickUnion(LinkOption<NL>, InterleavingOption<IR0>, set1, set2)
quickUnionIR0(d, set1, set2) ==
  LET RECURSIVE IR0First(_, _, _, _)
      \* the first loop of quickUnion with IR0: the path of set2 is turned round
      IR0First(parents, root, set, parent) ==
        IF set = parent THEN [parents |-> parents, done |-> FALSE]
        ELSE IF parent = set1 THEN [parents |-> [parents EXCEPT ![root] = set1], done |-> TRUE]
        ELSE LET next == parents[parent]
             IN IR0First([parents EXCEPT ![parent] = root], root, parent, next)
      RECURSIVE IR0Second(_, _, _, _)
      IR0Second(parents, root, set, parent) ==
        IF parent = root THEN [parents |-> parents, ret |-> FALSE]
        ELSE LET p2 == [parents EXCEPT ![set] = root]
             IN IF parent = set THEN [parents |-> p2, ret |-> TRUE]
                ELSE IR0Second(p2, root, parent, p2[parent])
  IN IF d.parents[set1] = d.parents[set2] THEN [d EXCEPT !.ret = FALSE]
     ELSE LET root == set2
              first == IR0First([d.parents EXCEPT ![set2] = root], root, set2,
                                d.parents[set2])
          IN IF first.done THEN [d EXCEPT !.parents = first.parents, !.ret = FALSE]
             ELSE LET second == IR0Second(first.parents, root, set1, first.parents[set1])
                  IN [d EXCEPT !.parents = second.parents, !.ret = second.ret]

\* quickUnion(LinkOption<LI>, InterleavingOption<Rem>, set1, set2)
quickUnionRem(d, set1, set2) ==
  LET RECURSIVE RemLoop(_, _, _, _, _)
      RemLoop(parents, r_x, r_y, p_r_x, p_r_y) ==
        IF p_r_x = p_r_y THEN [parents |-> parents, ret |-> FALSE]
        ELSE IF p_r_x < p_r_y
          THEN LET p2 == [parents EXCEPT ![r_x] = p_r_y]
               IN IF r_x = p_r_x THEN [parents |-> p2, ret |-> TRUE]
                  ELSE RemLoop(p2, p_r_x, r_y, p2[p_r_x], p_r_y)
          ELSE LET p2 == [parents EXCEPT ![r_y] = p_r_x]
               IN IF r_y = p_r_y THEN [parents |-> p2, ret |-> TRUE]
                  ELSE RemLoop(p2, r_x, p_r_y, p_r_x, p2[p_r_y])
  IN LET r == RemLoop(d.parents, set1, set2, d.parents[set1], d.parents[set2])
     IN [d EXCEPT !.parents = r.parents, !.ret = r.ret]

\* quickUnion(LinkOption<LI>, InterleavingOption<IPSPC>, set1, set2)
quickUnionIPSPC(d, s1, s2) ==
  LET RECURSIVE IPSPCLoop(_, _, _, _, _, _)
      \* "Redirect all nodes with smaller indices on the path of set2 to the root"
      IPSPCLoop(parents, root, set1, set2, set, parent) ==
        IF parent < root
          THEN LET p2 == [parents EXCEPT ![set] = root]
               IN IF set = parent THEN [parents |-> p2, ret |-> TRUE]
                  ELSE IPSPCLoop(p2, root, set1, set2, parent, p2[parent])
        ELSE IF parent > root
          THEN [parents |-> [[[parents EXCEPT ![root] = parent] EXCEPT ![set1] = parent]
                                EXCEPT ![set2] = parent],
                ret |-> TRUE]
        ELSE [parents |-> parents, ret |-> FALSE]
  IN IF d.parents[s1] = d.parents[s2] THEN [d EXCEPT !.ret = FALSE]
     ELSE LET set1 == IF s1 < s2 THEN s2 ELSE s1
              set2 == IF s1 < s2 THEN s1 ELSE s2
              set == d.parents[set1]
              split == findPSLoop(d.parents, set, d.parents[set], d.parents[d.parents[set]])
              p2 == [split.parents EXCEPT ![set1] = split.ret]
              root == split.ret
              r == IPSPCLoop(p2, root, set1, set2, set2, p2[set2])
          IN [d EXCEPT !.parents = r.parents, !.ret = r.ret]

\* quickUnion(LinkOption<LR>, InterleavingOption<TvL>, set1, set2)
quickUnionTvL(d, set1, set2) ==
  LET RECURSIVE TvLLoop(_, _, _, _, _, _)
      TvLLoop(parents, parameters, r_x, r_y, p_r_x, p_r_y) ==
        IF p_r_x = p_r_y THEN [parents |-> parents, parameters |-> parameters, ret |-> FALSE]
        ELSE IF parameters[p_r_x] <= parameters[p_r_y]
          THEN IF r_x = p_r_x
                 THEN [parents |-> [parents EXCEPT ![r_x] = parents[p_r_y]],
                       parameters |->
                         IF parameters[p_r_x] = parameters[p_r_y] /\ p_r_y = parents[p_r_y]
                           THEN [parameters EXCEPT ![p_r_y] = @ + 1] ELSE parameters,
                       ret |-> TRUE]
                 ELSE LET p2 == [parents EXCEPT ![r_x] = p_r_y]
                      IN TvLLoop(p2, parameters, p_r_x, r_y, p2[p_r_x], p_r_y)
          ELSE IF r_y = p_r_y
                 THEN [parents |-> [parents EXCEPT ![r_y] = parents[p_r_x]],
                       parameters |-> parameters, ret |-> TRUE]
                 ELSE LET p2 == [parents EXCEPT ![r_y] = p_r_x]
                      IN TvLLoop(p2, parameters, r_x, p_r_y, p_r_x, p2[p_r_y])
  IN LET r == TvLLoop(d.parents, d.parameters, set1, set2, d.parents[set1], d.parents[set2])
     IN [d EXCEPT !.parents = r.parents, !.parameters = r.parameters, !.ret = r.ret]

\* bool quickUnion(int set1, int set2)
quickUnion(d, set1, set2) ==
  IF set1 = set2 THEN [d EXCEPT !.ret = FALSE]
  ELSE LET r == CASE d.interleavingOption = "NI" -> quickUnionNI(d, set1, set2)
                  [] d.interleavingOption = "IR0" -> quickUnionIR0(d, set1, set2)
                  [] d.interleavingOption = "Rem" -> quickUnionRem(d, set1, set2)
                  [] d.interleavingOption = "IPSPC" -> quickUnionIPSPC(d, set1, set2)
                  [] d.interleavingOption = "TvL" -> quickUnionTvL(d, set1, set2)
       IN [r EXCEPT !.numberOfSets = @ - (IF r.ret THEN 1 ELSE 0)]

\* int link(int set1, int set2)
link(d, set1, set2) ==
  IF set1 = set2 THEN [d EXCEPT !.ret = -1]
  ELSE linkPure([d EXCEPT !.numberOfSets = @ - 1], set1, set2)

\* int makeSet()
makeSet(d) ==
  LET id == d.numberOfElements
      grow == d.numberOfElements = d.maxNumberOfElements
      extend(a, x) == [i \in 0..id |-> IF i < id THEN a[i] ELSE x]
  IN [d EXCEPT !.maxNumberOfElements = IF grow THEN @ * 2 ELSE @,
               !.numberOfSets = @ + 1,
               !.numberOfElements = @ + 1,
               !.parents = extend(@, id),
               !.parameters = IF d.linkOption = "LS" THEN extend(@, 1)
                              ELSE IF d.linkOption = "LR" THEN extend(@, 0) ELSE @,
               !.siblings = IF d.compressionOption = "CO" THEN extend(@, -1) ELSE @,
               !.ret = id]

\* DisjointSets(int maxNumberOfElements); the value the last call returned is
\* ret after makeSet, find and link (an int) and result after quickUnion (a
\* bool); the other of the two is 0 or FALSE
NewDisjointSets(o, maxNumberOfElements) ==
  [linkOption |-> o[1], compressionOption |-> o[2], interleavingOption |-> o[3],
   numberOfSets |-> 0, numberOfElements |-> 0, maxNumberOfElements |-> maxNumberOfElements,
   parents |-> <<>>, parameters |-> <<>>, siblings |-> <<>>,
   ret |-> 0, result |-> FALSE, called |-> <<"DisjointSets">>]

Ids(d) == 0..(d.numberOfElements - 1)

\* no doCall is in progress and none has been made
EmbedderIdle ==
  /\ inp = NoBlocks(0)
  /\ G = [n |-> 0, edges |-> <<>>, adj |-> <<>>]
  /\ maxFaceAny = 0
  /\ variant = "MaxFace"
  /\ adjExternal = 0
  /\ pc = "start"
  /\ pBCTree = 0
  /\ nodeLength = <<>>
  /\ cstrLength = <<>>
  /\ stack = <<>>
  /\ bT_opt = 0
  /\ ell_opt = 0
  /\ newOrder = <<>>
  /\ treeNodeTreated = <<>>
  /\ calls = NoCalls
  /\ embedArgs = <<>>
  /\ md = <<>>
  /\ mf_maxFaceSize = <<>>
  /\ firstCall = <<>>

InitDisjointSets ==
  /\ EmbedderIdle
  /\ disjointSets \in {NewDisjointSets(o, 1) : o \in AcceptedOptions}
  /\ sortedSequence = <<>> /\ layout = <<>> /\ eList = <<>>

DisjointSetsMakeSet ==
  /\ disjointSets.numberOfElements < MaxElements
  /\ disjointSets' = [makeSet(disjointSets) EXCEPT !.result = FALSE,
                                                   !.called = <<"makeSet">>]
  /\ UNCHANGED <<embedder, sortedSequence, layout, eList>>

\* find on an id made before
DisjointSetsFind ==
  /\ \E set \in Ids(disjointSets) :
       LET f == find(disjointSets, set)
       IN disjointSets' = [disjointSets EXCEPT !.parents = f.parents, !.ret = f.ret,
                                               !.result = FALSE,
                                               !.called = <<"find", set>>]
  /\ UNCHANGED <<embedder, sortedSequence, layout, eList>>

\* link on two representatives
DisjointSetsLink ==
  /\ \E set1, set2 \in Ids(disjointSets) :
       /\ set1 = getRepresentative(disjointSets.parents, set1)
       /\ set2 = getRepresentative(disjointSets.parents, set2)
       /\ disjointSets' = [link(disjointSets, set1, set2) EXCEPT
                             !.result = FALSE,
                             !.called = <<"link", set1, set2>>]
  /\ UNCHANGED <<embedder, sortedSequence, layout, eList>>

DisjointSetsQuickUnion ==
  /\ \E set1, set2 \in Ids(disjointSets) :
       LET q == quickUnion(disjointSets, set1, set2)
       IN disjointSets' = [q EXCEPT !.result = q.ret, !.ret = 0,
                                    !.called = <<"quickUnion", set1, set2>>]
  /\ UNCHANGED <<embedder, sortedSequence, layout, eList>>

NextDisjointSets ==
  \/ DisjointSetsMakeSet
  \/ DisjointSetsFind
  \/ DisjointSetsLink
  \/ DisjointSetsQuickUnion

SpecDisjointSets == InitDisjointSets /\ [][NextDisjointSets]_vars

\* the ids that are their own parent
Roots(d) == {i \in Ids(d) : d.parents[i] = i}

\* C22: after any sequence of makeSet, link (on representatives), quickUnion
\* and find, getNumberOfSets() equals the number of ids that are their own
\* representative
C22_NumberOfSetsIsNumberOfRoots ==
  disjointSets.numberOfSets = Cardinality(Roots(disjointSets))

\* the case of C22: a quickUnion has just joined two sets, leaving two sets
\* of four ids
C22_Witness ==
  /\ disjointSets.called[1] = "quickUnion" /\ disjointSets.result
  /\ disjointSets.numberOfElements = 4
  /\ disjointSets.numberOfSets = 2
  /\ Cardinality(Roots(disjointSets)) = 2

\* the representative of every id
Representatives(parents) == [x \in DOMAIN parents |-> getRepresentative(parents, x)]

\* what quickUnion(a, b) has to do to the sets of before, with after as the
\* outcome and ret the value returned
QuickUnionJoins(before, after, a, b, ret) ==
  LET old == Representatives(before)
      new == Representatives(after)
  IN /\ ret = (old[a] # old[b])
     /\ new[a] = new[b]
     /\ \A x, y \in DOMAIN before :
          new[x] = new[y] <=>
            \/ old[x] = old[y]
            \/ old[x] \in {old[a], old[b]} /\ old[y] \in {old[a], old[b]}

\* the same ids share a set before and after
SamePartition(before, after) ==
  LET old == Representatives(before)
      new == Representatives(after)
  IN \A x, y \in DOMAIN before : new[x] = new[y] <=> old[x] = old[y]

DisjointSetsStep(d, e) ==
  /\ e.called[1] = "quickUnion" =>
       QuickUnionJoins(d.parents, e.parents, e.called[2], e.called[3], e.result)
  /\ e.called[1] = "find" => SamePartition(d.parents, e.parents)

\* C23: quickUnion(a, b) returns true exactly when a and b were in different
\* maximal sets; afterwards they have the same representative and only those
\* two sets are merged; the compression inside find never changes which ids
\* share a set; for every option combination the class accepts
C23_QuickUnionJoinsTwoSets == [][DisjointSetsStep(disjointSets, disjointSets')]_vars

\* ------------------------------------------------------------------------
\* SortedSequence<int,int> (doubly linked skiplist).  Elements live at
\* addresses; address m_dummy holds the head/tail element.  An array entry
\* that malloc or realloc left unwritten holds nullptr here; the code reads
\* none.  The height insert draws bit by bit from m_rng is a parameter nh.
\* ------------------------------------------------------------------------
\* keys are 1..MaxKey, infos 1..MaxInfo, drawn heights 1..MaxHeight
MaxKey == 3

MaxInfo == 2

MaxHeight == 3

m_dummy == 0

nullptr == -1

\* void initEmpty()
initEmpty ==
  LET stop == [h \in 0..4 |-> IF h = 0 THEN m_dummy ELSE nullptr]
  IN [m_size |-> 0, m_realHeight |-> 5, m_height |-> 1,
      elements |-> (m_dummy :> [m_key |-> 0, m_info |-> 0, m_height |-> 0,
                                m_next |-> stop, m_prev |-> stop]),
      called |-> <<"SortedSequence">>]

\* const Element *_lookup(const KEY &key) const
_lookup(s, key) ==
  LET E == s.elements
      RECURSIVE search(_, _)
      search(pElement, h) ==
        LET n == E[pElement].m_next[h]
            first == E[pElement].m_next[0]
        IN IF n # m_dummy /\ E[n].m_key < key THEN search(n, h)
           ELSE IF h - 1 < 0
             THEN IF first # m_dummy /\ E[first].m_key = key THEN first ELSE nullptr
             ELSE search(pElement, h - 1)
  IN search(m_dummy, s.m_height - 1)

\* void grow(int newHeight), with Element::grow
grow(s, newHeight) ==
  LET real == IF newHeight > s.m_realHeight THEN newHeight ELSE s.m_realHeight
      arr(a) == [i \in 0..(real - 1) |->
                   IF i >= s.m_height /\ i < newHeight THEN m_dummy
                   ELSE IF i < s.m_realHeight THEN a[i] ELSE nullptr]
  IN [s EXCEPT !.m_realHeight = real, !.m_height = newHeight,
               !.elements[m_dummy].m_next = arr(@),
               !.elements[m_dummy].m_prev = arr(@)]

\* void insertElementAfterElement(Element *p, Element *q)
insertElementAfterElement(s, p, q0) ==
  LET RECURSIVE back(_, _, _)
      back(E, q, h) == IF q # m_dummy /\ E[q].m_height <= h
                       THEN back(E, E[q].m_prev[h - 1], h) ELSE q
      RECURSIVE level(_, _, _)
      level(E, q1, h) ==
        IF h >= E[p].m_height THEN E
        ELSE LET q == back(E, q1, h)
                 r == E[q].m_next[h]
                 E1 == [E EXCEPT ![p].m_next[h] = r, ![p].m_prev[h] = q]
                 E2 == [E1 EXCEPT ![r].m_prev[h] = p]
                 E3 == [E2 EXCEPT ![q].m_next[h] = p]
             IN level(E3, q, h + 1)
  IN [s EXCEPT !.elements = level(s.elements, q0, 0)]

\* void removeElement(Element *p)
removeElement(s, p) ==
  LET RECURSIVE level(_, _)
      level(E, h) ==
        IF h >= E[p].m_height THEN E
        ELSE LET pPred == E[p].m_prev[h]
                 pSucc == E[p].m_next[h]
                 E1 == [E EXCEPT ![pPred].m_next[h] = pSucc]
                 E2 == [E1 EXCEPT ![pSucc].m_prev[h] = pPred]
             IN level(E2, h + 1)
  IN [s EXCEPT !.elements = level(s.elements, 0)]

\* iterator insert(const KEY &key, const INFO &info), with randomHeightAndGrow
\* drawing nh
insert(s, key, info, nh) ==
  LET E == s.elements
      RECURSIVE search(_, _)
      search(pCurrent, h) ==
        LET n == E[pCurrent].m_next[h]
        IN IF n # m_dummy /\ E[n].m_key < key THEN search(n, h)
           ELSE IF h - 1 < 0 THEN pCurrent ELSE search(pCurrent, h - 1)
      pCurrent == search(m_dummy, s.m_height - 1)
      found == E[pCurrent].m_next[0]
      grown == IF nh > s.m_height THEN grow([s EXCEPT !.m_size = @ + 1], nh)
               ELSE [s EXCEPT !.m_size = @ + 1]
      pNewElement == CHOOSE a \in 1..(MaxKey + 1) :
                       /\ a \notin DOMAIN E
                       /\ \A b \in 1..(a - 1) : b \in DOMAIN E
      unset == [h \in 0..(nh - 1) |-> nullptr]
      made == [grown EXCEPT !.elements = @ @@ (pNewElement :>
                 [m_key |-> key, m_info |-> info, m_height |-> nh,
                  m_next |-> unset, m_prev |-> unset])]
  IN IF found # m_dummy /\ E[found].m_key = key
     THEN [s EXCEPT !.elements[found].m_info = info]
     ELSE insertElementAfterElement(made, pNewElement, pCurrent)

\* delItem without m_size--
delItem_KeepsSize(s, p) ==
  LET r == removeElement(s, p)
  IN [r EXCEPT !.elements = [a \in DOMAIN @ \ {p} |-> @[a]]]

\* void delItem(iterator it)
delItem(s, p) ==
  LET r == removeElement(s, p)
  IN [r EXCEPT !.m_size = @ - 1,
               !.elements = [a \in DOMAIN @ \ {p} |-> @[a]]]

\* void del(const KEY &key)
del(s, key) ==
  LET it == _lookup(s, key)
  IN IF it # nullptr THEN delItem(s, it) ELSE s

\* void clear()
clear(s) ==
  LET RECURSIVE walk(_, _)
      walk(E, item) == IF item = m_dummy THEN E
                       ELSE walk([a \in DOMAIN E \ {item} |-> E[a]], E[item].m_next[0])
      left == walk(s.elements, s.elements[m_dummy].m_next[0])
  IN [s EXCEPT !.m_size = 0, !.m_height = 1,
               !.elements = [left EXCEPT ![m_dummy].m_next[0] = m_dummy,
                                         ![m_dummy].m_prev[0] = m_dummy]]

InitSortedSequence ==
  /\ EmbedderIdle
  /\ sortedSequence = initEmpty
  /\ disjointSets = <<>> /\ layout = <<>> /\ eList = <<>>

\* the latest call is kept with whether the key was present before it
SortedSequenceInsert ==
  /\ \E key \in 1..MaxKey, info \in 1..MaxInfo, nh \in 1..MaxHeight :
       sortedSequence' = [insert(sortedSequence, key, info, nh) EXCEPT
                            !.called = <<"insert", key, info,
                                         _lookup(sortedSequence, key) # nullptr>>]
  /\ UNCHANGED <<embedder, disjointSets, layout, eList>>

SortedSequenceDel ==
  /\ \E key \in 1..MaxKey :
       sortedSequence' = [del(sortedSequence, key) EXCEPT !.called = <<"del", key>>]
  /\ UNCHANGED <<embedder, disjointSets, layout, eList>>

\* delItem on an iterator that points to an element of the sequence
SortedSequenceDelItem ==
  /\ \E p \in DOMAIN sortedSequence.elements \ {m_dummy} :
       sortedSequence' = [delItem(sortedSequence, p) EXCEPT !.called = <<"delItem">>]
  /\ UNCHANGED <<embedder, disjointSets, layout, eList>>

SortedSequenceClear ==
  /\ sortedSequence' = [clear(sortedSequence) EXCEPT !.called = <<"clear">>]
  /\ UNCHANGED <<embedder, disjointSets, layout, eList>>

NextSortedSequence ==
  \/ SortedSequenceInsert
  \/ SortedSequenceDel
  \/ SortedSequenceDelItem
  \/ SortedSequenceClear

SpecSortedSequence == InitSortedSequence /\ [][NextSortedSequence]_vars

\* the addresses met from begin() to end(), following m_next[0]
BottomList(s) ==
  LET RECURSIVE walk(_, _)
      walk(item, fuel) ==
        IF item = m_dummy \/ fuel = 0 THEN <<>>
        ELSE <<item>> \o walk(s.elements[item].m_next[0], fuel - 1)
  IN walk(s.elements[m_dummy].m_next[0], Cardinality(DOMAIN s.elements))

\* the (key, info) pairs from begin() to end()
Pairs(s) ==
  LET b == BottomList(s)
  IN [i \in 1..Len(b) |-> <<s.elements[b[i]].m_key, s.elements[b[i]].m_info>>]

\* the sequence holds exactly its elements, in strictly increasing key order,
\* and size() counts them
SortedAndCounted(s) ==
  LET b == BottomList(s)
  IN /\ \A i \in 1..(Len(b) - 1) : s.elements[b[i]].m_key < s.elements[b[i + 1]].m_key
     /\ {b[i] : i \in 1..Len(b)} = DOMAIN s.elements \ {m_dummy}
     /\ s.m_size = Len(b)

\* insert with a key that is present replaces its info and nothing else
ReplacesInfo(s, t) ==
  LET key == t.called[2]
      old == Pairs(s)
      new == Pairs(t)
  IN (t.called[1] = "insert" /\ \E i \in 1..Len(old) : old[i][1] = key) =>
       /\ t.m_size = s.m_size
       /\ Len(new) = Len(old)
       /\ \A i \in 1..Len(old) :
            new[i] = IF old[i][1] = key THEN <<key, t.called[3]>> ELSE old[i]

SortedSequenceStep(s, t) == SortedAndCounted(t) /\ ReplacesInfo(s, t)

\* C24: after any sequence of insert, del, delItem and clear, whatever heights
\* were drawn, the keys from begin() to end() are strictly increasing (so no
\* key occurs twice) and size() is the number of elements; an insert with a
\* key that is present only replaces that element's info
C24_SortedUniqueCounted == [][SortedSequenceStep(sortedSequence, sortedSequence')]_vars

\* the case of C24: three elements of different heights, the last operation
\* an insert over a present key
C24_Witness ==
  /\ sortedSequence.called = <<"insert", 2, 2, TRUE>>
  /\ sortedSequence.m_size = 3
  /\ Pairs(sortedSequence) = << <<1, 1>>, <<2, 2>>, <<3, 1>> >>
  /\ {sortedSequence.elements[a].m_height : a \in 1..3} = {1, 2, 3}

\* ------------------------------------------------------------------------
\* Layout options read and written from JavaScript through the bindings.
\* A layout object is its class and its C++ data members.  The classes
\* CircularLayout and FMMMLayout are outside the repository: each option has
\* a getter that returns its data member and a setter that stores into it.
\* ------------------------------------------------------------------------
\* minDistLevel bound to the setter of minDistCircle
defineMisclayout_WrongSetter ==
  [minDistCircle |-> [type |-> "double", getter |-> "minDistCircle", setter |-> "minDistCircle"],
   minDistLevel |-> [type |-> "double", getter |-> "minDistLevel", setter |-> "minDistCircle"],
   minDistSibling |-> [type |-> "double", getter |-> "minDistSibling", setter |-> "minDistSibling"],
   minDistCC |-> [type |-> "double", getter |-> "minDistCC", setter |-> "minDistCC"],
   pageRatio |-> [type |-> "double", getter |-> "pageRatio", setter |-> "pageRatio"]]

\* class_<ogdf::CircularLayout>("CircularLayout"): for each property the
\* type and the member functions given to .property()
defineMisclayout ==
  [minDistCircle |-> [type |-> "double", getter |-> "minDistCircle", setter |-> "minDistCircle"],
   minDistLevel |-> [type |-> "double", getter |-> "minDistLevel", setter |-> "minDistLevel"],
   minDistSibling |-> [type |-> "double", getter |-> "minDistSibling", setter |-> "minDistSibling"],
   minDistCC |-> [type |-> "double", getter |-> "minDistCC", setter |-> "minDistCC"],
   pageRatio |-> [type |-> "double", getter |-> "pageRatio", setter |-> "pageRatio"]]

\* class_<ogdf::FMMMLayout>("FMMMLayout"), the property of the fresh-object
\* test
defineFMMMLayout ==
  [useHighLevelOptions |-> [type |-> "bool", getter |-> "useHighLevelOptions",
                            setter |-> "useHighLevelOptions"]]

Bindings == [CircularLayout |-> defineMisclayout, FMMMLayout |-> defineFMMMLayout]

\* the values the tests assign, by type
ValuesOf(type) == IF type = "bool" THEN {TRUE, FALSE} ELSE {1, 10, 20}

\* new CircularLayout() / new FMMMLayout(): useHighLevelOptions is false; the
\* defaults of CircularLayout are whatever its constructor chose
NewLayouts ==
  {[class |-> "FMMMLayout", members |-> [useHighLevelOptions |-> FALSE],
    called |-> <<"new">>, ret |-> 0]}
  \cup {[class |-> "CircularLayout", members |-> m, called |-> <<"new">>, ret |-> 0] :
          m \in [DOMAIN defineMisclayout -> ValuesOf("double")]}

\* the member functions double f() const / bool f() const  and
\* void f(double) / void f(bool) of the layout classes
MemberGet(o, f) == o.members[f]

MemberSet(o, f, x) == [o EXCEPT !.members[f] = x]

\* reading o.name in JavaScript: the getter's result through the wire type
\* (a bool travels as 0 or 1, a double as the number itself)
PropertyRead(o, name) ==
  LET b == Bindings[o.class][name]
      result == MemberGet(o, b.getter)
      wire == IF b.type = "bool" THEN (IF result THEN 1 ELSE 0) ELSE result
  IN IF b.type = "bool" THEN wire # 0 ELSE wire

\* o.name = value in JavaScript
PropertyAssign(o, name, value) ==
  LET b == Bindings[o.class][name]
      wire == IF b.type = "bool" THEN (IF value THEN 1 ELSE 0) ELSE value
      arg == IF b.type = "bool" THEN wire # 0 ELSE wire
  IN MemberSet(o, b.setter, arg)

InitLayout ==
  /\ EmbedderIdle
  /\ layout \in NewLayouts
  /\ disjointSets = <<>> /\ sortedSequence = <<>> /\ eList = <<>>

LayoutNew ==
  /\ layout' \in NewLayouts
  /\ UNCHANGED <<embedder, disjointSets, sortedSequence, eList>>

LayoutAssign ==
  /\ \E name \in DOMAIN Bindings[layout.class] :
       \E value \in ValuesOf(Bindings[layout.class][name].type) :
         layout' = [PropertyAssign(layout, name, value) EXCEPT
                      !.called = <<"assign", name, value>>, !.ret = 0]
  /\ UNCHANGED <<embedder, disjointSets, sortedSequence, eList>>

\* ret is the value read, 0 or 1 for a bool read as false or true
LayoutRead ==
  /\ \E name \in DOMAIN Bindings[layout.class] :
       LET r == PropertyRead(layout, name)
       IN layout' = [layout EXCEPT
                       !.called = <<"read", name>>,
                       !.ret = IF Bindings[layout.class][name].type = "bool"
                               THEN (IF r THEN 1 ELSE 0) ELSE r]
  /\ UNCHANGED <<embedder, disjointSets, sortedSequence, eList>>

NextLayout ==
  \/ LayoutNew
  \/ LayoutAssign
  \/ LayoutRead

SpecLayout == InitLayout /\ [][NextLayout]_vars

\* what JavaScript reads from every property of o
Reads(o) == [name \in DOMAIN Bindings[o.class] |-> PropertyRead(o, name)]

\* after o.name = value, o.name reads value and every other property reads
\* what it read before; a fresh FMMMLayout reads useHighLevelOptions as false
LayoutStep(o, t) ==
  /\ t.called[1] = "assign" =>
       Reads(t) = [Reads(o) EXCEPT ![t.called[2]] = t.called[3]]
  /\ (t.called[1] = "new" /\ t.class = "FMMMLayout") =>
       PropertyRead(t, "useHighLevelOptions") = FALSE

MaxListElements == 3

\* EList::init on both heads; the elements are not in any list
NewELists ==
  [pList |-> [first |-> 0, last |-> 0, numElem |-> 0],
   pListOther |-> [first |-> 0, last |-> 0, numElem |-> 0],
   next |-> [x \in 1..MaxListElements |-> 0],
   prev |-> [x \in 1..MaxListElements |-> 0],
   in |-> [x \in 1..MaxListElements |-> ""],
   called |-> <<"init">>]

\* iterator pushBack(L* pList, E* elem), on the head named l
pushBack(e, l, elem) ==
  LET e1 == [e EXCEPT !.next[elem] = 0, !.prev[elem] = e[l].last]
      e2 == IF e1[l].last # 0
            THEN [e1 EXCEPT !.next[e1[l].last] = elem, ![l].last = elem]
            ELSE [e1 EXCEPT ![l].first = elem, ![l].last = elem]
  IN [e2 EXCEPT ![l].numElem = @ + 1, !.in[elem] = l]

\* iterator remove(L* pList, E* elem), on the head named l
remove(e, l, elem) ==
  LET pPrev == e.prev[elem]
      pNext == e.next[elem]
      e1 == IF pPrev # 0 THEN [e EXCEPT !.next[pPrev] = pNext]
            ELSE [e EXCEPT ![l].first = pNext]
      e2 == IF pNext # 0 THEN [e1 EXCEPT !.prev[pNext] = pPrev]
            ELSE [e1 EXCEPT ![l].last = pPrev]
  IN [e2 EXCEPT ![l].numElem = @ - 1, !.in[elem] = ""]

\* void appendFrom(L* pList, L_other* pListOther)
appendFrom(e) ==
  IF e.pListOther.first = 0 THEN e
  ELSE LET e1 == IF e.pList.first = 0
                 THEN [e EXCEPT !.pList.first = e.pListOther.first,
                                !.pList.last = e.pListOther.last]
                 ELSE [e EXCEPT !.next[e.pList.last] = e.pListOther.first,
                                !.prev[e.pListOther.first] = e.pList.last,
                                !.pList.last = e.pListOther.first]
       IN [e1 EXCEPT !.pList.numElem = @ + e.pListOther.numElem,
                     !.pListOther = [first |-> 0, last |-> 0, numElem |-> 0],
                     !.in = [x \in DOMAIN @ |-> IF @[x] = "pListOther" THEN "pList" ELSE @[x]]]

InitEList ==
  /\ EmbedderIdle
  /\ eList = NewELists
  /\ disjointSets = <<>> /\ sortedSequence = <<>> /\ layout = <<>>

EListPushBack ==
  /\ \E l \in {"pList", "pListOther"}, elem \in 1..MaxListElements :
       /\ eList.in[elem] = ""
       /\ eList' = [pushBack(eList, l, elem) EXCEPT !.called = <<"pushBack", l, elem>>]
  /\ UNCHANGED <<embedder, disjointSets, sortedSequence, layout>>

EListRemove ==
  /\ \E l \in {"pList", "pListOther"}, elem \in 1..MaxListElements :
       /\ eList.in[elem] = l
       /\ eList' = [remove(eList, l, elem) EXCEPT !.called = <<"remove", l, elem>>]
  /\ UNCHANGED <<embedder, disjointSets, sortedSequence, layout>>

EListAppendFrom ==
  /\ eList' = [appendFrom(eList) EXCEPT !.called = <<"appendFrom">>]
  /\ UNCHANGED <<embedder, disjointSets, sortedSequence, layout>>

NextEList ==
  \/ EListPushBack
  \/ EListRemove
  \/ EListAppendFrom

SpecEList == InitEList /\ [][NextEList]_vars

\* the elements met from begin() by it++ and from rbegin() by it--
Traversal(start, step) ==
  LET RECURSIVE walk(_, _)
      walk(x, fuel) == IF x = 0 \/ fuel = 0 THEN <<>>
                       ELSE <<x>> \o walk(step[x], fuel - 1)
  IN walk(start, MaxListElements + 1)

Forward(e, l) == Traversal(e[l].first, e.next)

Backward(e, l) == Traversal(e[l].last, e.prev)

\* both traversals of the list visit the same size() elements
Consistent(e, l) ==
  LET f == Forward(e, l)
      b == Backward(e, l)
  IN /\ Len(f) = e[l].numElem
     /\ Len(b) = Len(f)
     /\ \A i \in 1..Len(f) : b[i] = f[Len(f) + 1 - i]

\* what appendFrom has to do when both lists are non-empty
AppendsAll(e, t) ==
  (t.called[1] = "appendFrom" /\ e.pList.first # 0 /\ e.pListOther.first # 0) =>
    /\ t.pList.last = e.pListOther.last
    /\ Forward(t, "pList") = Forward(e, "pList") \o Forward(e, "pListOther")
    /\ t.pList.numElem = e.pList.numElem + e.pListOther.numElem
    /\ t.pListOther = [first |-> 0, last |-> 0, numElem |-> 0]

EListStep(e, t) == AppendsAll(e, t) /\ Consistent(t, "pList")

\* C30: appendFrom(pList, pListOther) with both lists non-empty moves the
\* elements of the other list to the end of pList in their order: back(pList)
\* is the other list's former last element, the count is the sum of the two
\* counts, the other list is empty, and forward and backward traversal of
\* pList visit the same size(pList) elements, also after later pushBack and
\* remove calls
C30_AppendFromMovesAll == [][EListStep(eList, eList')]_vars

====
